---- MODULE Spec2Model ----
(***************************************************************************)
(* Mobile sensor bridge: the fan-out router and upgrade dispatcher of the  *)
(* server (websocket_handlers.js, ros_interface.js), the producer-side     *)
(* channel transport and session lifecycle of the browser client (main     *)
(* script, textToSpeech.js, audioPlayer.js) and the send path of the       *)
(* capture adapters (IMU, GPS, pose, camera, speech).                      *)
(***************************************************************************)
EXTENDS Integers, Sequences, FiniteSets, TLC

(***************************************************************************)
(* Bounds                                                                  *)
(***************************************************************************)
\* server-side sockets accepted in one behaviour
MaxPeers == 2
\* bus messages arriving on the bus->consumer topics in one behaviour
MaxBus == 2
\* samples the capture adapters make ready in one behaviour
MaxSamples == 3
\* capture adapters that are handed a socket in one behaviour
MaxAdapters == 1
\* WebSocket objects the page creates in one behaviour
MaxSockets == 3
\* checkboxes that are ticked at the same time
MaxEnabled == 1
\* changes of a checkbox in one behaviour
MaxToggles == 1
\* asynchronous operations of one kind that are pending at the same time
MaxAsync == 1
\* chunks waiting in the playback queue
MaxQueue == 1
\* calls of shutdown() in one behaviour
MaxInvocations == 2
\* messages received on the producer connection in one behaviour
MaxRx == 2
\* binary messages the audio player receives in one behaviour
MaxBuffers == 2
\* final results the recognizer delivers in one behaviour
MaxFinals == 3
MaxPlays == 4
MaxClicks == 2
MaxTracks == 4
MaxUtterances == 3
MaxTime == 10

(***************************************************************************)
(* SERVER: state                                                           *)
(***************************************************************************)
VARIABLES
  clients,      \* servers.<key>.clients: the peer set of each WebSocket.Server
  ttsClients,   \* the module-level Set of TTS sockets
  peerState,    \* readyState of every server-side socket
  peerPath,     \* the pathname of the upgrade request that created the socket
  peerJoined,   \* number of bus messages that had arrived when it connected
  outbox,       \* frames handed to ws.send() for each socket, in order
  busLog,       \* bus messages received so far: <<topic, data>> records
  lastFanout,   \* what the last subscription callback did
  lastUpgrade   \* what the last 'upgrade' event did

serverVars == <<clients, ttsClients, peerState, peerPath, peerJoined,
                outbox, busLog, lastFanout, lastUpgrade>>

PeerIds == 1..MaxPeers

\* keys of the `servers` object
ServerKeys == {"pose", "camera", "tts", "microphone", "wavAudio", "imu", "gps"}

\* pathnames an upgrade request may carry: the seven routed ones and others
RoutedPaths == {"/pose", "/camera", "/imu", "/gps", "/microphone", "/tts", "/wav_audio"}
OtherPaths == {"/", "/audio", "/wavAudio"}
Searches == {"", "?x=1"}
RequestUrls == [pathname : RoutedPaths \cup OtherPaths, search : Searches]
\* the requests of the peers the bus->consumer fan-out is observed with: the
\* two consumer channels and one producer channel
FanoutUrls == [pathname : {"/tts", "/wav_audio", "/camera"}, search : {""}]

\* new URL(request.url, base).pathname: the query string is not part of it
Pathname(url) == url.pathname

\* msg.data of the String topic, as character codes ("Hello")
TtsTexts == {<<72, 101, 108, 108, 111>>}
\* msg.data of the UInt8MultiArray topics

WavPayloads == {<<82, 73, 200>>}
BusTopics == {"mobile_sensor/tts", "mobile_sensor/tts_wav", "mobile_sensor/wav_bytes"}

NoFanout == [seq |-> 0, topic |-> "", data |-> <<>>, calls |-> <<>>, count |-> 0,
             threw |-> FALSE, open |-> {}, others |-> {}]
NoUpgrade == [url |-> [pathname |-> "", search |-> ""], peer |-> 0, destroyed |-> FALSE]

\* the switch of the 'upgrade' listener: the server that handles a pathname
RouteOf_legacy(pathname) ==
  CASE pathname = "/tts" -> "tts"
    [] pathname = "/pose" -> "pose"
    [] pathname = "/camera" -> "camera"
    [] pathname = "/imu" -> "imu"
    [] pathname = "/gps" -> "gps"
    [] pathname = "/audio" -> "microphone"
    [] pathname = "/wav_audio" -> "wavAudio"
    [] OTHER -> "destroy"
RouteOf(pathname) ==
  CASE pathname = "/tts" -> "tts"
    [] pathname = "/pose" -> "pose"
    [] pathname = "/camera" -> "camera"
    [] pathname = "/imu" -> "imu"
    [] pathname = "/gps" -> "gps"
    [] pathname = "/microphone" -> "microphone"
    [] pathname = "/wav_audio" -> "wavAudio"
    [] OTHER -> "destroy"

\* Buffer.from(msg.data): every element is stored as one unsigned byte
BufferFrom_signed(data) == [i \in 1..Len(data) |-> data[i] % 128]
BufferFrom(data) == [i \in 1..Len(data) |-> data[i] % 256]

\* frames the connection handlers send on their own
\* ("TTS system ready" and the JSON status message, abbreviated)
TtsWelcome == [kind |-> "text", data |-> <<84, 84, 83>>, seq |-> 0]
WavWelcome == [kind |-> "text", data |-> <<123, 125>>, seq |-> 0]

(***************************************************************************)
(* SERVER: initial state (after initWebSockets and initRos)                *)
(***************************************************************************)
InitServer ==
  /\ clients = [k \in ServerKeys |-> {}]
  /\ ttsClients = {}
  /\ peerState = [p \in PeerIds |-> "NONE"]
  /\ peerPath = [p \in PeerIds |-> ""]
  /\ peerJoined = [p \in PeerIds |-> 0]
  /\ outbox = [p \in PeerIds |-> <<>>]
  /\ busLog = <<>>
  /\ lastFanout = NoFanout
  /\ lastUpgrade = NoUpgrade

MinOf(S) == CHOOSE x \in S : \A y \in S : x <= y

\* the guard in front of client.send() in the three subscription callbacks
ShouldSend_any(state) == TRUE
ShouldSend(state) == state = "OPEN"

\* clients.forEach(client => { if (OPEN) client.send(...) }): the sockets on
\* which send() is called, in the Set's iteration (insertion) order
RECURSIVE ForEachSend(_)
ForEachSend(S) ==
  IF S = {} THEN <<>>
  ELSE LET p == MinOf(S)
       IN (IF ShouldSend(peerState[p]) THEN <<p>> ELSE <<>>) \o ForEachSend(S \ {p})

\* ws.send(data) without a callback: the frame is written when the socket is
\* OPEN; on a socket that is not OPEN the frame is never written
RECURSIVE SendAll(_, _, _)
SendAll(calls, frame, ob) ==
  IF calls = <<>> THEN ob
  ELSE LET p == Head(calls)
           ob1 == IF peerState[p] = "OPEN"
                  THEN [ob EXCEPT ![p] = Append(@, frame)] ELSE ob
       IN SendAll(Tail(calls), frame, ob1)

\* ws.send() on a socket that is not OPEN raises (ws < 7, and CONNECTING in
\* every version) when no callback is passed
SendRaises(calls) == \E i \in 1..Len(calls) : peerState[calls[i]] # "OPEN"

\* a send() that raises ends the forEach at that socket
Attempted(calls) ==
  LET raised == {i \in 1..Len(calls) : peerState[calls[i]] # "OPEN"}
  IN IF raised = {} THEN calls ELSE SubSeq(calls, 1, MinOf(raised))

\* the count the TTS callback logs: OPEN sockets of wssTTS.clients
ActiveClientCount_size(S) == Cardinality(S)
ActiveClientCount(S) == Cardinality({c \in S : peerState[c] = "OPEN"})

\* the clientCount the WAV callbacks keep: incremented after every send()
ClientCount(calls) == Len(calls)

\* sockets of a server that are OPEN / in another state, read off the sockets
\* themselves and not off the server's client set
OpenPeers(path) ==
  {p \in PeerIds : peerState[p] = "OPEN" /\ peerPath[p] = path}
OtherPeers(path) ==
  {p \in PeerIds : peerState[p] \in {"CLOSING", "CLOSED"} /\ peerPath[p] = path}

(***************************************************************************)
(* SERVER: the 'upgrade' listener and the connection handlers              *)
(***************************************************************************)
\* frames setupTTSHandlers sends to a socket that has just connected
TTSConnectionFrames_replay(p) ==
  IF \E q \in PeerIds : outbox[q] # <<>> /\ outbox[q][Len(outbox[q])].seq > 0
  THEN LET q == CHOOSE q \in PeerIds :
                  outbox[q] # <<>> /\ outbox[q][Len(outbox[q])].seq > 0
       IN <<TtsWelcome, outbox[q][Len(outbox[q])]>>
  ELSE <<TtsWelcome>>
TTSConnectionFrames(p) == <<TtsWelcome>>

\* frames setupWavAudioHandlers sends to a socket that has just connected
WavConnectionFrames(p) == <<WavWelcome>>

\* server.on('upgrade'): dispatch on the pathname; handleUpgrade adds the new
\* socket (OPEN) to that server's clients and emits 'connection'
Upgrade(url) ==
  LET key == RouteOf(Pathname(url)) IN
  IF key = "destroy"
  THEN /\ lastUpgrade' = [url |-> url, peer |-> 0, destroyed |-> TRUE]
       /\ UNCHANGED <<clients, ttsClients, peerState, peerPath, peerJoined,
                      outbox, busLog, lastFanout>>
  ELSE /\ \E p \in PeerIds : peerState[p] = "NONE"
       /\ LET p == MinOf({q \in PeerIds : peerState[q] = "NONE"}) IN
          /\ peerState' = [peerState EXCEPT ![p] = "OPEN"]
          /\ peerPath' = [peerPath EXCEPT ![p] = Pathname(url)]
          /\ peerJoined' = [peerJoined EXCEPT ![p] = Len(busLog)]
          /\ clients' = [clients EXCEPT ![key] = @ \cup {p}]
          /\ ttsClients' = IF key = "tts" THEN ttsClients \cup {p} ELSE ttsClients
          /\ outbox' = [outbox EXCEPT ![p] =
                          IF key = "tts" THEN TTSConnectionFrames(p)
                          ELSE IF key = "wavAudio" THEN WavConnectionFrames(p)
                          ELSE <<>>]
          /\ lastUpgrade' = [url |-> url, peer |-> p, destroyed |-> FALSE]
       /\ UNCHANGED <<busLog, lastFanout>>

\* the closing handshake has started on a server-side socket
PeerClosing(p) ==
  /\ peerState[p] = "OPEN"
  /\ peerState' = [peerState EXCEPT ![p] = "CLOSING"]
  /\ UNCHANGED <<clients, ttsClients, peerPath, peerJoined, outbox, busLog,
                 lastFanout, lastUpgrade>>

\* the socket's 'close' event: the server drops it from its clients, and the
\* TTS handler drops it from ttsClients
PeerClosed(p) ==
  /\ peerState[p] \in {"OPEN", "CLOSING"}
  /\ peerState' = [peerState EXCEPT ![p] = "CLOSED"]
  /\ clients' = [k \in ServerKeys |-> clients[k] \ {p}]
  /\ ttsClients' = ttsClients \ {p}
  /\ UNCHANGED <<peerPath, peerJoined, outbox, busLog, lastFanout, lastUpgrade>>

(***************************************************************************)
(* SERVER: the bus subscriptions                                           *)
(***************************************************************************)
\* mobile_sensor/tts: msg.data is forwarded to every OPEN client of wssTTS
TTSCallback(data) ==
  /\ Len(busLog) < MaxBus
  /\ LET seq == Len(busLog) + 1
         calls == Attempted(ForEachSend(clients["tts"]))
     IN /\ busLog' = Append(busLog, [topic |-> "mobile_sensor/tts", data |-> data])
        /\ outbox' = SendAll(calls, [kind |-> "text", data |-> data, seq |-> seq], outbox)
        /\ lastFanout' = [seq |-> seq, topic |-> "mobile_sensor/tts", data |-> data,
                          calls |-> calls,
                          count |-> ActiveClientCount(clients["tts"]),
                          threw |-> SendRaises(calls),
                          open |-> OpenPeers("/tts"), others |-> OtherPeers("/tts")]
  /\ UNCHANGED <<clients, ttsClients, peerState, peerPath, peerJoined, lastUpgrade>>

\* the body shared by the tts_wav and the wav_bytes callbacks; the try/catch
\* around it keeps an error of send() inside the callback, and clientCount is
\* incremented only after a send() that returned
WavFanout(topic, data) ==
  /\ Len(busLog) < MaxBus
  /\ LET seq == Len(busLog) + 1
         buffer == BufferFrom(data)
         calls == Attempted(ForEachSend(clients["wavAudio"]))
     IN /\ busLog' = Append(busLog, [topic |-> topic, data |-> data])
        /\ outbox' = SendAll(calls, [kind |-> "binary", data |-> buffer, seq |-> seq],
                             outbox)
        /\ lastFanout' = [seq |-> seq, topic |-> topic, data |-> data,
                          calls |-> calls,
                          count |-> ClientCount(SelectSeq(calls,
                                       LAMBDA c : peerState[c] = "OPEN")),
                          threw |-> FALSE,
                          open |-> OpenPeers("/wav_audio"),
                          others |-> OtherPeers("/wav_audio")]
  /\ UNCHANGED <<clients, ttsClients, peerState, peerPath, peerJoined, lastUpgrade>>

\* mobile_sensor/tts_wav
TtsWavCallback(data) == WavFanout("mobile_sensor/tts_wav", data)

\* mobile_sensor/wav_bytes
WavBytesCallback(data) == WavFanout("mobile_sensor/wav_bytes", data)

(***************************************************************************)
(* CAPTURE ADAPTERS: the send path of the IMU, GPS, pose, camera and       *)
(* speech adapters of the browser                                          *)
(***************************************************************************)
VARIABLES
  adSock,          \* readyState of the socket each adapter sends on ("NULL": none)
  adActive,        \* imu.isActive, gps.isActive, enabledSensors.pose
  sampleNo,        \* samples made ready so far
  wire,            \* samples accepted by a socket for transmission
  dropped,         \* samples that were ready while the adapter's socket was not OPEN
  cameraEncoding,  \* the frame camera.js is encoding (await processFrame), 0: none
  finalTranscripts,\* speech: transcripts accumulated for the pending timer
  adRaised         \* an error escaped an adapter callback

sendVars == <<adSock, adActive, sampleNo, wire, dropped, cameraEncoding,
              finalTranscripts, adRaised>>

Adapters == {"imu", "gps", "pose", "camera", "iosCamera", "speech"}
\* adapters with a flag of their own in front of the socket test
Flagged == {"imu", "gps", "pose"}
ReadyStates == {"CONNECTING", "OPEN", "CLOSING", "CLOSED"}

InitSend ==
  /\ adSock = [a \in Adapters |-> "NULL"]
  /\ adActive = [a \in Flagged |-> FALSE]
  /\ sampleNo = 0
  /\ wire = {}
  /\ dropped = {}
  /\ cameraEncoding = 0
  /\ finalTranscripts = <<>>
  /\ adRaised = FALSE

\* WebSocket.send() of the browser: queued on an OPEN socket, discarded on a
\* CLOSING or CLOSED one, InvalidStateError on a CONNECTING one
BrowserSend(state) ==
  CASE state = "OPEN" -> "sent"
    [] state = "CONNECTING" -> "throws"
    [] OTHER -> "discarded"

\* socket && socket.readyState === WebSocket.OPEN
SocketUsable(state) == state # "NULL" /\ state = "OPEN"

\* poseWs && poseWs.readyState === WebSocket.OPEN
PoseSocketUsable_notClosed(state) == state # "NULL" /\ state # "CLOSED"
PoseSocketUsable(state) == state # "NULL" /\ state = "OPEN"

\* the adapter is handed a socket: start...(websocket, isSessionActive) of the
\* IMU and GPS managers, connectPoseWebSocket, startCamera, startSpeechRecognition
AdapterStart(a, state) ==
  /\ Cardinality({b \in Adapters : adSock[b] # "NULL"} \cup {a}) <= MaxAdapters
  /\ adSock' = [adSock EXCEPT ![a] = state]
  /\ adActive' = IF a \in Flagged THEN [adActive EXCEPT ![a] = TRUE] ELSE adActive
  /\ UNCHANGED <<sampleNo, wire, dropped, cameraEncoding, finalTranscripts, adRaised>>

\* stopIMUSensor, stopGPSSensor, the pose checkbox switched off
AdapterStop(a) ==
  /\ a \in Flagged
  /\ adActive[a]
  /\ adActive' = [adActive EXCEPT ![a] = FALSE]
  /\ UNCHANGED <<adSock, sampleNo, wire, dropped, cameraEncoding, finalTranscripts,
                 adRaised>>

\* the socket of an adapter moves on: opened, closing, closed
SocketAdvance(a) ==
  /\ adSock[a] \in {"CONNECTING", "OPEN", "CLOSING"}
  /\ \E next \in ReadyStates :
       /\ \/ adSock[a] = "CONNECTING" /\ next \in {"OPEN", "CLOSED"}
          \/ adSock[a] = "OPEN" /\ next \in {"CLOSING", "CLOSED"}
          \/ adSock[a] = "CLOSING" /\ next = "CLOSED"
       /\ adSock' = [adSock EXCEPT ![a] = next]
  /\ UNCHANGED <<adActive, sampleNo, wire, dropped, cameraEncoding, finalTranscripts,
                 adRaised>>

\* bookkeeping of a sample that became ready on adapter a
Ready(a) ==
  /\ sampleNo < MaxSamples
  /\ sampleNo' = sampleNo + 1
  /\ dropped' = IF adSock[a] = "OPEN" THEN dropped ELSE dropped \cup {sampleNo + 1}

\* IMUSensorManager.sendSensorData, called by the sampling interval
SendSensorData ==
  /\ adSock["imu"] # "NULL"
  /\ Ready("imu")
  /\ IF ~adActive["imu"] \/ ~SocketUsable(adSock["imu"])
     THEN UNCHANGED wire
     ELSE \* try { socket.send(...) } catch (error) { console.error(...) }
          wire' = IF BrowserSend(adSock["imu"]) = "sent"
                  THEN wire \cup {sampleNo + 1} ELSE wire
  /\ UNCHANGED <<adSock, adActive, cameraEncoding, finalTranscripts, adRaised>>

\* GPSSensorManager.handlePositionUpdate and the sendGPSData it ends with
HandlePositionUpdate ==
  /\ adSock["gps"] # "NULL"
  /\ Ready("gps")
  /\ IF ~adActive["gps"] \/ ~SocketUsable(adSock["gps"])
     THEN UNCHANGED wire
     ELSE wire' = IF BrowserSend(adSock["gps"]) = "sent"
                  THEN wire \cup {sampleNo + 1} ELSE wire
  /\ UNCHANGED <<adSock, adActive, cameraEncoding, finalTranscripts, adRaised>>

\* onXRFrame with a viewer pose: poseWs.send() is not inside a try
OnXRFrame ==
  /\ adActive["pose"]
  /\ Ready("pose")
  /\ IF PoseSocketUsable(adSock["pose"])
     THEN /\ wire' = IF BrowserSend(adSock["pose"]) = "sent"
                     THEN wire \cup {sampleNo + 1} ELSE wire
          /\ adRaised' = (adRaised \/ BrowserSend(adSock["pose"]) = "throws")
     ELSE UNCHANGED <<wire, adRaised>>
  /\ UNCHANGED <<adSock, adActive, cameraEncoding, finalTranscripts>>

\* camera.js processFrames: a frame was read; it is encoded only if the socket
\* is OPEN, otherwise it is closed
CameraFrameRead ==
  /\ adSock["camera"] # "NULL"
  /\ cameraEncoding = 0
  /\ Ready("camera")
  /\ cameraEncoding' = IF SocketUsable(adSock["camera"]) THEN sampleNo + 1 ELSE 0
  /\ UNCHANGED <<adSock, adActive, wire, finalTranscripts, adRaised>>

\* camera.js processFrames: processFrame resolved, ws.send() inside the try
CameraFrameEncoded ==
  /\ cameraEncoding # 0
  /\ wire' = IF BrowserSend(adSock["camera"]) = "sent"
             THEN wire \cup {cameraEncoding} ELSE wire
  /\ cameraEncoding' = 0
  /\ UNCHANGED <<adSock, adActive, sampleNo, dropped, finalTranscripts, adRaised>>

\* iosCameraManager.js capture interval: test and send in one callback
IOSCaptureInterval ==
  /\ adSock["iosCamera"] # "NULL"
  /\ Ready("iosCamera")
  /\ wire' = IF SocketUsable(adSock["iosCamera"])
                /\ BrowserSend(adSock["iosCamera"]) = "sent"
             THEN wire \cup {sampleNo + 1} ELSE wire
  /\ UNCHANGED <<adSock, adActive, cameraEncoding, finalTranscripts, adRaised>>

\* recognizer.onresult with a final transcript after the wake word: the
\* transcript starts the next prompt and the 2 s timer is started
SpeechResult ==
  /\ adSock["speech"] # "NULL"
  /\ finalTranscripts = <<>>
  /\ sampleNo < MaxSamples
  /\ sampleNo' = sampleNo + 1
  /\ finalTranscripts' = <<sampleNo + 1>>
  /\ UNCHANGED <<adSock, adActive, wire, dropped, cameraEncoding, adRaised>>

\* the transcription timer: the prompt is ready; it is sent if the socket is
\* OPEN, and finalTranscripts is emptied in either case
TranscriptionTimer ==
  /\ finalTranscripts # <<>>
  /\ dropped' = IF adSock["speech"] = "OPEN" THEN dropped
                ELSE dropped \cup {finalTranscripts[1]}
  /\ wire' = IF SocketUsable(adSock["speech"]) /\ BrowserSend(adSock["speech"]) = "sent"
             THEN wire \cup {finalTranscripts[1]} ELSE wire
  /\ finalTranscripts' = <<>>
  /\ UNCHANGED <<adSock, adActive, sampleNo, cameraEncoding, adRaised>>

(***************************************************************************)
(* BROWSER CLIENT: session, producer and audio sockets, reconnect timers   *)
(***************************************************************************)
VARIABLES
  platform,         \* navigator.userAgent class of the device
  audioMode,        \* config.audio.mode served by /api/config
  isSessionActive,
  enabledSensors,
  sockets,          \* every WebSocket the page created, in creation order
  ws,               \* poseWs, cameraWs, microphoneWs, imuWs, gpsWs, tts.ws, audioPlayer ws
  autoReconnect,    \* tts.autoReconnect and the autoReconnect of audioPlayer.js
  audioConfigEnabled, \* audioConfig.enabled of audioPlayer.js
  playerSessionActive,\* isSessionActive of audioPlayer.js
  xrSession,        \* "none", "running", "ending"
  xrPending,        \* startSession calls awaiting navigator.xr.requestSession
  fetching,         \* pending /api/config fetches and what resumes after them
  cameraStarted,
  cameraAcquiring,  \* startCamera calls awaiting getUserMedia
  imu,              \* isActive and intervalId of the IMUSensorManager
  gps,              \* isActive and watchId of the GPSSensorManager
  speechRecognitionStarted,
  audioQueue,
  isPlaying,
  toggles,          \* checkbox changes so far
  held,             \* the socket each capture adapter was handed last, and
                    \* whether a camera frame is being encoded
  emitted,          \* adapters that sent a sample while the session was inactive
  lastStop          \* what the last onSessionEnded found (history)

clientVars == <<platform, audioMode, isSessionActive, enabledSensors, sockets, ws,
                autoReconnect, audioConfigEnabled, playerSessionActive, xrSession,
                xrPending, fetching, cameraStarted, cameraAcquiring, imu, gps,
                speechRecognitionStarted, audioQueue, isPlaying, toggles, held,
                emitted, lastStop>>

Platforms == {"android", "desktop"}
\* /iPad|iPhone|iPod/ or /Android/ in the user agent
Mobile == {"ios", "android"}
AudioModes == {"tts", "wav"}
Producers == {"pose", "camera", "microphone", "imu", "gps"}
AudioChannels == {"tts", "wav_audio"}
ClientChannels == Producers \cup AudioChannels
Sensors == Producers \cup {"audio"}
\* the order in which connectWebSockets opens the producer channels
ConnectOrder == <<"pose", "camera", "microphone", "imu", "gps">>

NoStop == [seq |-> 0, open |-> {}, running |-> {}, queued |-> 0, thrown |-> "none"]

\* new WebSocket(url). timers: the reconnect timers its onclose has set and
\* that are still to expire. History: retry, the number of reconnects in a row
\* that led to this socket; awaited, its close still calls for a reconnect
\* (the session has stayed active and the sensor enabled since); cancelled, a
\* stop or a disable came while its timer was pending; expiry, what the timer
\* of a producer socket did when it expired ("connect", "skip", "-": not yet)
NewWebSocket(ch, retry) ==
  [chan |-> ch, readyState |-> "CONNECTING", timers |-> 0, retry |-> retry,
   awaited |-> FALSE, cancelled |-> FALSE, expiry |-> "-"]

\* the page once it has loaded
PageLoaded(ticked) ==
  /\ audioMode \in AudioModes
  /\ isSessionActive = FALSE
  \* the page loads with every box but 3D position ticked; the user has
  \* left at most so many boxes ticked
  /\ enabledSensors \in [Sensors -> BOOLEAN]
  /\ Cardinality({s \in Sensors : enabledSensors[s]
                                   /\ (s = "imu" => platform \in Mobile)}) <= ticked
  /\ sockets = <<>>
  /\ ws = [ch \in ClientChannels |-> 0]
  \* unticking the audio box has disconnected the TTS and the WAV player
  /\ autoReconnect = [ch \in AudioChannels |-> enabledSensors.audio]
  /\ audioConfigEnabled = (audioMode = "wav" => enabledSensors.audio)
  /\ playerSessionActive = FALSE
  /\ xrSession = "none"
  /\ xrPending = 0
  \* audioPlayer.js calls fetchConfig on DOMContentLoaded
  /\ fetching = IF audioMode = "wav" /\ enabledSensors.audio
                THEN <<[kind |-> "config", retry |-> 0, cancelled |-> FALSE]>>
                ELSE <<>>
  /\ cameraStarted = FALSE
  /\ cameraAcquiring = 0
  /\ imu = [isActive |-> FALSE, intervalId |-> FALSE]
  /\ gps = [isActive |-> FALSE, watchId |-> FALSE]
  /\ speechRecognitionStarted = FALSE
  /\ audioQueue = <<>>
  /\ isPlaying = FALSE
  /\ toggles = 0
  /\ held = [imu |-> 0, gps |-> 0, camera |-> 0, speech |-> 0, encoding |-> FALSE]
  /\ emitted = {}
  /\ lastStop = NoStop

InitPage(ticked) == platform \in Platforms /\ PageLoaded(ticked)

InitClient == InitPage(MaxEnabled)
\* as many boxes ticked as a start can open sockets for
InitSession == InitPage(MaxSockets)

SocketIds == 1..Len(sockets)
Live(sock) == sock.readyState \in {"CONNECTING", "OPEN"}
PendingTimers(socks) ==
  Cardinality({i \in 1..Len(socks) : socks[i].timers > 0})
Awaiting(kind) == Cardinality({i \in 1..Len(fetching) : fetching[i].kind = kind})

\* WebSocket.close(): a connecting or open socket starts closing
CloseCall(sock) ==
  IF Live(sock) THEN [sock EXCEPT !.readyState = "CLOSING"] ELSE sock

\* ws.close() on the sockets ids (0: a null reference)
CloseAll(socks, ids) ==
  [i \in 1..Len(socks) |-> IF i \in ids THEN CloseCall(socks[i]) ELSE socks[i]]

\* history: the reconnect timers of channels chans that are pending now are
\* the ones a stop or a disable would have to cancel, and no close of these
\* channels calls for a reconnect any more
MarkCancelled(socks, chans) ==
  [i \in 1..Len(socks) |->
     IF socks[i].chan \in chans
     THEN [socks[i] EXCEPT !.cancelled = (socks[i].timers > 0), !.awaited = FALSE]
     ELSE socks[i]]

\* connectPoseWebSocket ... connectGPSWebSocket: the channel's variable is
\* pointed at a new socket; the old one is neither closed nor looked at
Connect(st, ch, retry) ==
  [sockets |-> Append(st.sockets, NewWebSocket(ch, retry)),
   ws |-> [st.ws EXCEPT ![ch] = Len(st.sockets) + 1]]

RECURSIVE ConnectEach(_, _)
ConnectEach(st, chans) ==
  IF chans = <<>> THEN st
  ELSE ConnectEach(Connect(st, Head(chans), 0), Tail(chans))

\* the producer channels connectWebSockets opens: the enabled ones, the IMU
\* only on iOS and Android
ToConnect(enabled) ==
  SelectSeq(ConnectOrder,
            LAMBDA ch : enabled[ch] /\ (ch = "imu" => platform \in Mobile))

Within(enabled) ==
  Len(ToConnect(enabled)) + (IF enabled.audio THEN 1 ELSE 0)
    <= MaxEnabled + MaxToggles

\* connectAudioServices: tts.connectWebSocket() awaits its config fetch, and a
\* second fetch of /api/config ends in audioPlayer.connectWebSocket(); the one
\* whose mode is not configured returns without any effect
AudioFetchKind == IF audioMode = "tts" THEN "tts" ELSE "wav"
connectAudioServices(fs) ==
  Append(fs, [kind |-> AudioFetchKind, retry |-> 0, cancelled |-> FALSE])

\* the guard of a producer reconnect timer
ReconnectGuard_sessionOnly(ch) == isSessionActive
ReconnectGuard(ch) == enabledSensors[ch] /\ isSessionActive

\* onclose of a producer socket: whether a reconnect is scheduled
SchedulesReconnect_never(ch) == FALSE
SchedulesReconnect(ch) == isSessionActive

\* startCamera(ws, isSessionActive): returns at once if started or inactive,
\* otherwise awaits getUserMedia
startCamera(n, active) == IF cameraStarted \/ ~active THEN n ELSE n + 1

\* startSpeechRecognition(ws, isSessionActive)
startSpeechRecognition(started, active) == started \/ active

\* stopAllAudio: what is left of the playback queue
stopAllAudio_keepQueue(queue) == queue
stopAllAudio(queue) == <<>>

\* audioPlayer.connectWebSocket: nothing if the player is disabled or its
\* socket is connecting or open
PlayerConnect(st, enabled, retry) ==
  IF ~enabled \/ (st.ws.wav_audio # 0 /\ Live(st.sockets[st.ws.wav_audio]))
  THEN st
  ELSE Connect(st, "wav_audio", retry)

\* the socket table keeps one free place for every pending reconnect timer
Fits(socks) == Len(socks) + PendingTimers(socks) <= MaxSockets
Without(seq, i) == SubSeq(seq, 1, i - 1) \o SubSeq(seq, i + 1, Len(seq))

deviceVars == <<platform, audioMode>>

\* one more change of a checkbox
Toggle ==
  /\ toggles < MaxToggles
  /\ toggles' = toggles + 1
adapterVars == <<cameraStarted, cameraAcquiring, imu, gps, speechRecognitionStarted>>
playerVars == <<audioConfigEnabled, playerSessionActive, audioQueue, isPlaying>>

\* onSessionEnded, all of it; it does not touch the pending asynchronous work
onSessionEnded ==
  IF ~isSessionActive
  THEN UNCHANGED <<isSessionActive, enabledSensors, sockets, ws, autoReconnect,
                   xrSession, fetching, adapterVars, playerVars, lastStop>>
  ELSE LET refs == {ws[ch] : ch \in ClientChannels} IN
       /\ isSessionActive' = FALSE
       \* [poseWs, ...].forEach(ws => ws.close()), tts.disconnectWebSocket(),
       \* audioPlayer.disconnectWebSocket()
       /\ sockets' = CloseAll(MarkCancelled(sockets, ClientChannels), refs)
       /\ ws' = [ch \in ClientChannels |-> 0]
       /\ autoReconnect' = [ch \in AudioChannels |-> FALSE]
       \* stopIMUSensor, stopCamera, stopSpeechRecognition
       /\ imu' = [isActive |-> FALSE, intervalId |-> FALSE]
       /\ cameraStarted' = FALSE
       /\ speechRecognitionStarted' = FALSE
       /\ audioQueue' = stopAllAudio(audioQueue)
       /\ isPlaying' = FALSE
       /\ xrSession' = "none"
       /\ lastStop' = [seq |-> 1,
                       open |-> {ch \in ClientChannels :
                                   ws[ch] # 0 /\ sockets[ws[ch]].readyState = "OPEN"},
                       running |-> {a \in {"camera", "imu", "speech"} :
                                      \/ a = "camera" /\ cameraStarted
                                      \/ a = "imu" /\ imu.isActive
                                      \/ a = "speech" /\ speechRecognitionStarted},
                       queued |-> Len(audioQueue), thrown |-> "none"]
       /\ UNCHANGED <<enabledSensors, fetching, cameraAcquiring, gps,
                      audioConfigEnabled, playerSessionActive>>

\* startSession from "isSessionActive = true" on: connectWebSockets and
\* cameraManager.startCamera(cameraWs, isSessionActive)
BeginSession ==
  LET st == ConnectEach([sockets |-> sockets, ws |-> ws], ToConnect(enabledSensors)) IN
  /\ Fits(st.sockets)
  /\ enabledSensors.audio => Awaiting(AudioFetchKind) < MaxAsync
  /\ isSessionActive' = TRUE
  /\ sockets' = st.sockets
  /\ ws' = st.ws
  /\ fetching' = IF enabledSensors.audio THEN connectAudioServices(fetching)
                 ELSE fetching
  /\ cameraAcquiring' = IF enabledSensors.camera
                        THEN startCamera(cameraAcquiring, TRUE) ELSE cameraAcquiring
  /\ cameraAcquiring' <= MaxAsync
  /\ held' = IF cameraAcquiring' > cameraAcquiring
             THEN [held EXCEPT !.camera = st.ws.camera] ELSE held
  /\ UNCHANGED emitted
  /\ lastStop' = NoStop
  /\ UNCHANGED <<enabledSensors, autoReconnect, cameraStarted, imu, gps,
                 speechRecognitionStarted, playerVars>>

\* click on the button while no session is active: startSession; with 3D
\* position enabled it first awaits the XR session
ClickStart ==
  /\ ~isSessionActive
  /\ IF enabledSensors.pose
     THEN /\ xrPending < MaxAsync
          /\ xrPending' = xrPending + 1
          /\ UNCHANGED <<isSessionActive, enabledSensors, sockets, ws, autoReconnect,
                         xrSession, fetching, adapterVars, playerVars, held,
                         emitted, lastStop>>
     ELSE /\ BeginSession
          /\ UNCHANGED <<xrSession, xrPending>>
  /\ UNCHANGED <<toggles, deviceVars>>

\* navigator.xr.requestSession resolved: the rest of startSession
XRGranted ==
  /\ xrPending > 0
  /\ xrPending' = xrPending - 1
  /\ xrSession' = "running"
  /\ BeginSession
  /\ UNCHANGED <<toggles, deviceVars>>

\* navigator.xr.requestSession rejected: catch (e) { onSessionEnded() }
XRDenied ==
  /\ xrPending > 0
  /\ xrPending' = xrPending - 1
  /\ onSessionEnded
  /\ UNCHANGED <<toggles, deviceVars>>
  /\ UNCHANGED <<held, emitted>>

\* click on the button while a session is active
ClickStop ==
  /\ isSessionActive
  /\ IF xrSession # "none"
     THEN /\ xrSession' = "ending"
          /\ UNCHANGED <<isSessionActive, enabledSensors, sockets, ws, autoReconnect,
                         fetching, adapterVars, playerVars, lastStop>>
     ELSE onSessionEnded
  /\ UNCHANGED <<xrPending, toggles, deviceVars>>
  /\ UNCHANGED <<held, emitted>>

\* the 'end' event of the XR session, after end() or when the user leaves AR
XREnd ==
  /\ xrSession # "none"
  /\ onSessionEnded
  /\ UNCHANGED <<xrPending, toggles, deviceVars>>
  /\ UNCHANGED <<held, emitted>>

\* the steps of the teardown in onSessionEnded, in program order: close() on
\* the five producer sockets, the three managers, the two audio disconnects
\* and stopAllAudio
TeardownOrder ==
  <<"pose", "camera", "microphone", "imu", "gps", "stopIMUSensor", "stopCamera",
    "stopSpeechRecognition", "tts", "wav_audio", "stopAllAudio">>
\* the steps onSessionEnded calls inside a try ... catch
GuardedSteps == {"stopCamera", "stopSpeechRecognition"}
\* stopAllAudio catches what its own calls raise
Throwers == {TeardownOrder[i] : i \in 1..Len(TeardownOrder)} \ {"stopAllAudio"}
StepNo(step) == CHOOSE i \in 1..Len(TeardownOrder) : TeardownOrder[i] = step

\* the steps that run to their end when step t throws: all of them if t is
\* inside a try (a manager has cleared its flag before the call that
\* throws), the ones before t otherwise
Completed(t) ==
  IF t \in GuardedSteps THEN {TeardownOrder[i] : i \in 1..Len(TeardownOrder)}
  ELSE {TeardownOrder[i] : i \in 1..(StepNo(t) - 1)}

\* onSessionEnded of an active session in which step t throws
onSessionEndedThrows(t) ==
  LET done == Completed(t)
      closed == {ws[ch] : ch \in done \cap ClientChannels} IN
  /\ isSessionActive' = FALSE
  /\ sockets' = CloseAll(MarkCancelled(sockets, ClientChannels), closed)
  \* poseWs = cameraWs = ... = null follows the forEach; tts.ws and the
  \* player's ws are cleared right after their close()
  /\ ws' = [ch \in ClientChannels |->
             IF ch \in Producers THEN (IF "gps" \in done THEN 0 ELSE ws[ch])
             ELSE IF ch \in done THEN 0 ELSE ws[ch]]
  \* autoReconnect = false is the first statement of either disconnect
  /\ autoReconnect' = [ch \in AudioChannels |->
                        IF ch \in done \cup {t} THEN FALSE ELSE autoReconnect[ch]]
  /\ imu' = IF "stopIMUSensor" \in done THEN [isActive |-> FALSE, intervalId |-> FALSE]
            ELSE imu
  /\ cameraStarted' = (cameraStarted /\ "stopCamera" \notin done)
  /\ speechRecognitionStarted' =
       (speechRecognitionStarted /\ "stopSpeechRecognition" \notin done)
  /\ audioQueue' = IF "stopAllAudio" \in done THEN stopAllAudio(audioQueue)
                   ELSE audioQueue
  /\ isPlaying' = (isPlaying /\ "stopAllAudio" \notin done)
  \* "if (xrSession) xrSession = null" is the last statement but one
  /\ xrSession' = IF "stopAllAudio" \in done THEN "none" ELSE xrSession
  /\ lastStop' = [seq |-> 1,
                  open |-> {ch \in ClientChannels :
                              ws[ch] # 0 /\ sockets[ws[ch]].readyState = "OPEN"},
                  running |-> {a \in {"camera", "imu", "speech"} :
                                 \/ a = "camera" /\ cameraStarted
                                 \/ a = "imu" /\ imu.isActive
                                 \/ a = "speech" /\ speechRecognitionStarted},
                  queued |-> Len(audioQueue), thrown |-> t]
  /\ UNCHANGED <<enabledSensors, fetching, cameraAcquiring, gps,
                 audioConfigEnabled, playerSessionActive>>

\* a stop of an active session (click without XR session, or its 'end'
\* event) in which the call of step t throws
StopThrows(t) ==
  /\ isSessionActive
  /\ t \in ClientChannels => ws[t] # 0
  /\ onSessionEndedThrows(t)
  /\ UNCHANGED <<xrPending, toggles, deviceVars>>
  /\ UNCHANGED <<held, emitted>>

\* change of the camera checkbox
CameraSelect ==
  LET checked == ~enabledSensors.camera
      st == Connect([sockets |-> sockets, ws |-> ws], "camera", 0) IN
  /\ Toggle
  /\ enabledSensors' = [enabledSensors EXCEPT !.camera = checked]
  /\ Within(enabledSensors')
  /\ IF ~checked
     THEN /\ cameraStarted' = FALSE
          /\ sockets' = MarkCancelled(sockets, {"camera"})
          /\ UNCHANGED <<ws, cameraAcquiring>>
     ELSE IF ~isSessionActive
     THEN UNCHANGED <<sockets, ws, cameraStarted, cameraAcquiring>>
     ELSE IF ws.camera # 0 /\ sockets[ws.camera].readyState = "OPEN"
     THEN /\ cameraAcquiring' = startCamera(cameraAcquiring, isSessionActive)
          /\ cameraAcquiring' <= MaxAsync
          /\ UNCHANGED <<sockets, ws, cameraStarted>>
     ELSE /\ Fits(st.sockets)
          /\ sockets' = st.sockets
          /\ ws' = st.ws
          /\ UNCHANGED <<cameraStarted, cameraAcquiring>>
  /\ held' = IF cameraAcquiring' > cameraAcquiring
             THEN [held EXCEPT !.camera = ws.camera] ELSE held
  /\ UNCHANGED emitted
  /\ UNCHANGED <<isSessionActive, autoReconnect, xrSession, xrPending, fetching, imu,
                 gps, speechRecognitionStarted, playerVars, lastStop, deviceVars>>

\* change of the 3D position checkbox
PoseSelect ==
  /\ Toggle
  /\ enabledSensors' = [enabledSensors EXCEPT !.pose = ~enabledSensors.pose]
  /\ Within(enabledSensors')
  /\ sockets' = IF enabledSensors.pose THEN MarkCancelled(sockets, {"pose"})
                ELSE sockets
  /\ UNCHANGED <<isSessionActive, ws, autoReconnect, xrSession, xrPending, fetching,
                 adapterVars, playerVars, lastStop, deviceVars>>
  /\ UNCHANGED <<held, emitted>>

\* change of the microphone checkbox: ticking it during a session calls
\* connectWebSockets, which connects every enabled channel again
MicrophoneSelect ==
  LET checked == ~enabledSensors.microphone
      enabled == [enabledSensors EXCEPT !.microphone = checked]
      st == ConnectEach([sockets |-> sockets, ws |-> ws], ToConnect(enabled)) IN
  /\ Toggle
  /\ enabledSensors' = enabled
  /\ Within(enabled)
  /\ IF ~checked
     THEN /\ speechRecognitionStarted' = FALSE
          /\ sockets' = MarkCancelled(sockets, {"microphone"})
          /\ UNCHANGED <<ws, fetching>>
     ELSE IF ~isSessionActive
     THEN UNCHANGED <<sockets, ws, fetching, speechRecognitionStarted>>
     ELSE /\ Fits(st.sockets)
          /\ enabled.audio => Awaiting(AudioFetchKind) < MaxAsync
          /\ sockets' = st.sockets
          /\ ws' = st.ws
          /\ fetching' = IF enabled.audio THEN connectAudioServices(fetching)
                         ELSE fetching
          /\ UNCHANGED speechRecognitionStarted
  /\ UNCHANGED <<isSessionActive, autoReconnect, xrSession, xrPending, cameraStarted,
                 cameraAcquiring, imu, gps, playerVars, lastStop, deviceVars>>
  /\ UNCHANGED <<held, emitted>>

\* change of the IMU checkbox
ImuSelect(checked) ==
  LET st == Connect([sockets |-> sockets, ws |-> ws], "imu", 0) IN
  /\ Toggle
  /\ IF platform \notin Mobile
     THEN \* the box is forced back; nothing else happens off iOS and Android
          /\ checked
          /\ enabledSensors' = [enabledSensors EXCEPT !.imu = FALSE]
          /\ UNCHANGED <<sockets, ws, imu>>
     ELSE /\ checked = ~enabledSensors.imu
          /\ enabledSensors' = [enabledSensors EXCEPT !.imu = checked]
          /\ Within(enabledSensors')
          /\ IF checked /\ isSessionActive
             THEN IF ws.imu # 0 /\ sockets[ws.imu].readyState = "OPEN"
                  THEN UNCHANGED <<sockets, ws, imu>>
                  ELSE /\ Fits(st.sockets)
                       /\ sockets' = st.sockets
                       /\ ws' = st.ws
                       /\ UNCHANGED imu
             ELSE IF ~checked /\ ws.imu # 0
             THEN /\ sockets' = CloseAll(MarkCancelled(sockets, {"imu"}), {ws.imu})
                  /\ imu' = [isActive |-> FALSE, intervalId |-> FALSE]
                  /\ UNCHANGED ws
             ELSE /\ sockets' = IF checked THEN sockets
                                ELSE MarkCancelled(sockets, {"imu"})
                  /\ UNCHANGED <<ws, imu>>
  /\ UNCHANGED <<isSessionActive, autoReconnect, xrSession, xrPending, fetching,
                 cameraStarted, cameraAcquiring, gps, speechRecognitionStarted,
                 playerVars, lastStop, deviceVars>>
  /\ UNCHANGED <<held, emitted>>

\* change of the GPS checkbox
GpsSelect ==
  LET checked == ~enabledSensors.gps
      st == Connect([sockets |-> sockets, ws |-> ws], "gps", 0) IN
  /\ Toggle
  /\ enabledSensors' = [enabledSensors EXCEPT !.gps = checked]
  /\ Within(enabledSensors')
  /\ IF checked /\ isSessionActive
     THEN IF ws.gps # 0 /\ sockets[ws.gps].readyState = "OPEN"
          THEN UNCHANGED <<sockets, ws, gps>>
          ELSE /\ Fits(st.sockets)
               /\ sockets' = st.sockets
               /\ ws' = st.ws
               /\ UNCHANGED gps
     ELSE IF ~checked /\ ws.gps # 0
     THEN /\ sockets' = CloseAll(MarkCancelled(sockets, {"gps"}), {ws.gps})
          /\ gps' = [isActive |-> FALSE, watchId |-> FALSE]
          /\ UNCHANGED ws
     ELSE /\ sockets' = IF checked THEN sockets ELSE MarkCancelled(sockets, {"gps"})
          /\ UNCHANGED <<ws, gps>>
  /\ UNCHANGED <<isSessionActive, autoReconnect, xrSession, xrPending, fetching,
                 cameraStarted, cameraAcquiring, imu, speechRecognitionStarted,
                 playerVars, lastStop, deviceVars>>
  /\ UNCHANGED <<held, emitted>>

\* change of the audio checkbox: the listener of the page and, in WAV mode,
\* the listener of audioPlayer.js, which first fetches the configuration
AudioSelect ==
  LET checked == ~enabledSensors.audio
      own == IF audioMode = "wav"
             THEN <<[kind |-> IF checked THEN "checked" ELSE "unchecked",
                     retry |-> 0, cancelled |-> FALSE]>>
             ELSE <<>>
      connect == checked /\ isSessionActive IN
  /\ Toggle
  /\ enabledSensors' = [enabledSensors EXCEPT !.audio = checked]
  /\ Within(enabledSensors')
  /\ audioMode = "wav" => Awaiting(own[1].kind) < MaxAsync
  /\ connect => Awaiting(AudioFetchKind) < MaxAsync
  /\ fetching' = (IF connect THEN connectAudioServices(fetching) ELSE fetching) \o own
  /\ IF ~checked
     THEN \* tts.disconnectWebSocket(), audioPlayer.disconnectWebSocket()
          /\ autoReconnect' = [ch \in AudioChannels |-> FALSE]
          /\ sockets' = CloseAll(MarkCancelled(sockets, AudioChannels),
                                 {ws.tts, ws.wav_audio})
          /\ ws' = [ws EXCEPT !.tts = 0, !.wav_audio = 0]
     ELSE UNCHANGED <<autoReconnect, sockets, ws>>
  /\ UNCHANGED <<isSessionActive, xrSession, xrPending, adapterVars, playerVars,
                 lastStop, deviceVars>>
  /\ UNCHANGED <<held, emitted>>

\* the socket id opened: readyState OPEN and the onopen handler of its channel
SockOpen(id) ==
  LET ch == sockets[id].chan IN
  /\ sockets[id].readyState = "CONNECTING"
  /\ sockets' = [sockets EXCEPT ![id].readyState = "OPEN"]
  \* camera: startCamera(cameraWs, isSessionActive) if active and enabled
  /\ cameraAcquiring' = IF ch = "camera" /\ isSessionActive /\ enabledSensors.camera
                        THEN startCamera(cameraAcquiring, isSessionActive)
                        ELSE cameraAcquiring
  /\ cameraAcquiring' <= MaxAsync
  \* microphone: startSpeechRecognition(microphoneWs, isSessionActive)
  /\ speechRecognitionStarted' =
       IF ch = "microphone"
       THEN startSpeechRecognition(speechRecognitionStarted, isSessionActive)
       ELSE speechRecognitionStarted
  \* imu: startIMUSensorWithoutPermission(imuWs, isSessionActive)
  /\ imu' = IF ch = "imu" THEN [isActive |-> isSessionActive, intervalId |-> TRUE]
            ELSE imu
  \* gps: startGPSSensorWithoutPermission; setupGPSTracking returns if inactive
  /\ gps' = IF ch = "gps"
            THEN [isActive |-> isSessionActive, watchId |-> gps.watchId \/ isSessionActive]
            ELSE gps
  \* each start is handed the channel's variable as it is now
  /\ held' = CASE ch = "camera" /\ cameraAcquiring' > cameraAcquiring ->
                    [held EXCEPT !.camera = ws.camera]
               [] ch = "microphone" /\ ~speechRecognitionStarted /\ isSessionActive ->
                    [held EXCEPT !.speech = ws.microphone]
               [] ch = "imu" -> [held EXCEPT !.imu = ws.imu]
               [] ch = "gps" -> [held EXCEPT !.gps = ws.gps]
               [] OTHER -> held
  /\ UNCHANGED emitted
  /\ UNCHANGED <<isSessionActive, enabledSensors, ws, autoReconnect, xrSession,
                 xrPending, fetching, cameraStarted, playerVars, lastStop, toggles, deviceVars>>

\* whether the onclose handler of channel ch sets a reconnect timer
OnCloseSchedules(ch) ==
  IF ch \in Producers THEN SchedulesReconnect(ch) ELSE autoReconnect[ch]

\* the socket id closed (by close() or by the network): readyState CLOSED and
\* the onclose handler of its channel
SockClose(id) ==
  LET ch == sockets[id].chan IN
  /\ sockets[id].readyState \in {"CONNECTING", "OPEN", "CLOSING"}
  /\ sockets' = [sockets EXCEPT
       ![id].readyState = "CLOSED",
       ![id].timers = IF OnCloseSchedules(ch) THEN 1 ELSE 0,
       ![id].retry = IF OnCloseSchedules(ch) THEN @ ELSE 0,
       ![id].awaited = ch \in Producers /\ isSessionActive /\ enabledSensors[ch]]
  /\ Fits(sockets')
  /\ imu' = IF ch = "imu" THEN [isActive |-> FALSE, intervalId |-> FALSE] ELSE imu
  /\ gps' = IF ch = "gps" THEN [isActive |-> FALSE, watchId |-> FALSE] ELSE gps
  /\ UNCHANGED <<isSessionActive, enabledSensors, ws, autoReconnect, xrSession,
                 xrPending, fetching, cameraStarted, cameraAcquiring,
                 speechRecognitionStarted, playerVars, lastStop, toggles, deviceVars>>
  /\ UNCHANGED <<held, emitted>>

\* the reconnect timer set by the onclose of socket id expires
ReconnectTimer(id) ==
  LET ch == sockets[id].chan
      sock == sockets[id]
      fired(opened) == [sockets EXCEPT ![id].timers = 0, ![id].retry = 0,
                                       ![id].cancelled = FALSE,
                                       ![id].awaited = @ /\ ~opened,
                                       ![id].expiry = IF ch \notin Producers THEN "-"
                                                      ELSE IF opened THEN "connect"
                                                      ELSE "skip"]
      st(opened) == [sockets |-> fired(opened), ws |-> ws] IN
  /\ id \in SocketIds
  /\ sockets[id].timers > 0
  /\ IF ch \in Producers
     THEN LET next == IF ReconnectGuard(ch) THEN Connect(st(TRUE), ch, sock.retry + 1)
                      ELSE st(FALSE) IN
          /\ sockets' = next.sockets
          /\ ws' = next.ws
          /\ UNCHANGED fetching
     ELSE IF ch = "tts"
     THEN \* () => this.connectWebSocket()
          /\ Awaiting("retry") < MaxAsync
          /\ fetching' = Append(fetching, [kind |-> "retry", retry |-> sock.retry + 1,
                                           cancelled |-> sock.cancelled])
          /\ sockets' = fired(TRUE)
          /\ UNCHANGED ws
     ELSE \* setTimeout(connectWebSocket, 3000)
          LET next == PlayerConnect(st(TRUE), audioConfigEnabled, sock.retry + 1) IN
          /\ sockets' = next.sockets
          /\ ws' = next.ws
          /\ UNCHANGED fetching
  /\ Fits(sockets')
  /\ UNCHANGED <<isSessionActive, enabledSensors, autoReconnect, xrSession, xrPending,
                 adapterVars, playerVars, lastStop, toggles, deviceVars>>
  /\ UNCHANGED <<held, emitted>>

\* the configuration fetch number i resolved: what was awaiting it goes on
ConfigFetched(i) ==
  LET f == fetching[i]
      st == [sockets |-> sockets, ws |-> ws]
      next == CASE f.kind \in {"tts", "retry"} -> Connect(st, "tts", f.retry)
                [] f.kind \in {"wav", "config"} ->
                     PlayerConnect(st, IF f.kind = "config" THEN TRUE
                                       ELSE audioConfigEnabled, 0)
                [] f.kind = "checked" ->
                     IF ws.wav_audio = 0 \/ sockets[ws.wav_audio].readyState # "OPEN"
                     THEN PlayerConnect(st, TRUE, 0) ELSE st
                [] OTHER ->
                     [sockets |-> CloseAll(sockets, {ws.wav_audio}),
                      ws |-> [ws EXCEPT !.wav_audio = 0]] IN
  /\ i \in 1..Len(fetching)
  /\ fetching' = Without(fetching, i)
  /\ sockets' = next.sockets
  /\ ws' = next.ws
  /\ Fits(sockets')
  /\ autoReconnect' =
       CASE f.kind \in {"tts", "retry"} -> [autoReconnect EXCEPT !.tts = TRUE]
         [] f.kind = "unchecked" -> [autoReconnect EXCEPT !.wav_audio = FALSE]
         [] OTHER -> autoReconnect
  /\ audioConfigEnabled' =
       CASE f.kind \in {"config", "checked"} -> TRUE
         [] f.kind = "unchecked" -> FALSE
         [] OTHER -> audioConfigEnabled
  /\ UNCHANGED <<isSessionActive, enabledSensors, xrSession, xrPending, adapterVars,
                 playerSessionActive, audioQueue, isPlaying, lastStop, toggles, deviceVars>>
  /\ UNCHANGED <<held, emitted>>

\* getUserMedia resolved (the capture loop starts) or was refused
CameraAcquired(granted) ==
  /\ cameraAcquiring > 0
  /\ cameraAcquiring' = cameraAcquiring - 1
  /\ cameraStarted' = (cameraStarted \/ granted)
  /\ UNCHANGED <<isSessionActive, enabledSensors, sockets, ws, autoReconnect,
                 xrSession, xrPending, fetching, imu, gps, speechRecognitionStarted,
                 playerVars, lastStop, toggles, deviceVars>>
  /\ UNCHANGED <<held, emitted>>

\* a message on an open /wav_audio socket: the JSON status of the server
\* (sessionState 'active') or a binary chunk, queued while another one plays
WavMessage(id, binary) ==
  /\ sockets[id].chan = "wav_audio"
  /\ sockets[id].readyState = "OPEN"
  /\ IF ~binary
     THEN /\ playerSessionActive' = TRUE
          /\ UNCHANGED <<audioQueue, isPlaying>>
     ELSE /\ playerSessionActive
          /\ isPlaying => Len(audioQueue) < MaxQueue
          /\ audioQueue' = IF isPlaying THEN Append(audioQueue, "chunk") ELSE audioQueue
          /\ isPlaying' = TRUE
          /\ UNCHANGED playerSessionActive
  /\ UNCHANGED <<isSessionActive, enabledSensors, sockets, ws, autoReconnect,
                 audioConfigEnabled, xrSession, xrPending, fetching, adapterVars,
                 lastStop, toggles, deviceVars>>
  /\ UNCHANGED <<held, emitted>>

\* a chunk finished playing: playNextInQueue
PlaybackEnded ==
  /\ isPlaying
  /\ audioQueue' = IF audioQueue = <<>> THEN audioQueue ELSE Tail(audioQueue)
  /\ isPlaying' = (audioQueue # <<>>)
  /\ UNCHANGED <<isSessionActive, enabledSensors, sockets, ws, autoReconnect,
                 audioConfigEnabled, playerSessionActive, xrSession, xrPending,
                 fetching, adapterVars, lastStop, toggles, deviceVars>>
  /\ UNCHANGED <<held, emitted>>

\* the variables a capture step leaves alone
sessionVars == <<isSessionActive, enabledSensors, sockets, ws, autoReconnect,
                 xrSession, xrPending, fetching, adapterVars, playerVars, lastStop,
                 toggles, deviceVars>>

\* the readyState of the socket an adapter holds ("NULL": no socket)
HeldState(id) == IF id = 0 THEN "NULL" ELSE sockets[id].readyState

\* adapter a put a sample on the wire
Emit(a) == emitted' = IF isSessionActive THEN emitted ELSE emitted \cup {a}

\* the IMU interval: sendSensorData
PageSendSensorData ==
  /\ imu.intervalId
  /\ imu.isActive /\ SocketUsable(HeldState(held.imu))
  /\ Emit("imu")
  /\ UNCHANGED <<sessionVars, held>>

\* the geolocation watch: handlePositionUpdate, sendGPSData
PageSendGPSData ==
  /\ gps.watchId
  /\ gps.isActive /\ SocketUsable(HeldState(held.gps))
  /\ Emit("gps")
  /\ UNCHANGED <<sessionVars, held>>

\* an XR frame with a viewer pose while the XR session runs
PageOnXRFrame ==
  /\ xrSession # "none"
  /\ enabledSensors.pose /\ PoseSocketUsable(HeldState(ws.pose))
  /\ Emit("pose")
  /\ UNCHANGED <<sessionVars, held>>

\* the transcription timer, which stopSpeechRecognition clears
PageTranscriptionTimer ==
  /\ speechRecognitionStarted
  /\ SocketUsable(HeldState(held.speech))
  /\ Emit("speech")
  /\ UNCHANGED <<sessionVars, held>>

\* the frame loop of camera.js read a frame and found its socket OPEN
PageCameraFrameRead ==
  /\ cameraStarted
  /\ ~held.encoding
  /\ SocketUsable(HeldState(held.camera))
  /\ held' = [held EXCEPT !.encoding = TRUE]
  /\ UNCHANGED <<sessionVars, emitted>>

\* processFrame resolved: ws.send() on the socket as it is by now
PageCameraFrameEncoded ==
  /\ held.encoding
  /\ held' = [held EXCEPT !.encoding = FALSE]
  /\ IF BrowserSend(HeldState(held.camera)) = "sent" THEN Emit("camera")
     ELSE UNCHANGED emitted
  /\ UNCHANGED sessionVars

(***************************************************************************)
(* CLIENT: the permission requests of a start click                        *)
(***************************************************************************)
VARIABLES
  clickPc,            \* where the click listener of the button is suspended
  suspensions,        \* awaits the listener has resumed from so far
  requests,           \* permission requests issued to the platform, in order,
                      \* each with the number of suspensions that preceded it
  permissionGranted,  \* permissionGranted of the IMU and of the GPS manager
  hostApi             \* what the browser offers

gestureVars == <<clickPc, suspensions, requests, permissionGranted, hostApi>>

\* DeviceMotionEvent.requestPermission and DeviceOrientationEvent
\* .requestPermission exist; navigator.geolocation exists; the page was
\* loaded over https or from localhost
HostApis == [motion : BOOLEAN, orientation : BOOLEAN, geolocation : BOOLEAN,
             secure : BOOLEAN]
Answers == {"granted", "denied", "error"}

InitClick ==
  /\ clickPc = "idle"
  /\ suspensions = 0
  /\ requests = <<>>
  /\ permissionGranted = [imu |-> FALSE, gps |-> FALSE]
  /\ hostApi \in HostApis

IsIOS == platform = "ios"

Issue(reqs, api, n) == Append(reqs, [api |-> api, after |-> n])

\* the listener from its GPS block on, up to its next await: with the GPS
\* box ticked on iOS it awaits gpsSensorManager.requestPermission(), which
\* returns false at once or calls getCurrentPosition; otherwise startSession()
GpsBlock(enabled, reqs, n) ==
  IF enabled.gps /\ IsIOS
  THEN IF ~hostApi.geolocation \/ ~hostApi.secure
       THEN [pc |-> "gpsReturn", requests |-> reqs]
       ELSE [pc |-> "geolocation", requests |-> Issue(reqs, "geolocation", n)]
  ELSE [pc |-> "startSession", requests |-> reqs]

\* the rest of the page is not touched by the listener before startSession()
pageRest == <<platform, audioMode, isSessionActive, sockets, ws, autoReconnect,
              audioConfigEnabled, playerSessionActive, xrSession, xrPending,
              fetching, cameraStarted, cameraAcquiring, imu, gps,
              speechRecognitionStarted, audioQueue, isPlaying, toggles, held,
              emitted, lastStop>>

\* click on the button while no session is active, up to the first await
GestureClick ==
  /\ clickPc = "idle"
  /\ ~isSessionActive
  /\ IF enabledSensors.imu /\ IsIOS
     THEN \* imuSensorManager.requestPermission(), the iOS branch
          IF hostApi.motion
          THEN /\ clickPc' = "motion"
               /\ requests' = Issue(requests, "motion", suspensions)
               /\ UNCHANGED permissionGranted
          ELSE IF hostApi.orientation
          THEN /\ clickPc' = "orientation"
               /\ requests' = Issue(requests, "orientation", suspensions)
               /\ UNCHANGED permissionGranted
          ELSE /\ clickPc' = "imuReturn"
               /\ permissionGranted' = [permissionGranted EXCEPT !.imu = TRUE]
               /\ UNCHANGED requests
     ELSE LET next == GpsBlock(enabledSensors, requests, suspensions) IN
          /\ clickPc' = next.pc
          /\ requests' = next.requests
          /\ UNCHANGED permissionGranted
  /\ UNCHANGED <<suspensions, hostApi, enabledSensors, pageRest>>

\* requestPermission of the IMU manager has returned result: the listener
\* clears the flag and the box on false, and goes on with its GPS block
ImuResult(result) ==
  LET enabled == [enabledSensors EXCEPT !.imu = enabledSensors.imu /\ result]
      next == GpsBlock(enabled, requests, suspensions + 1) IN
  /\ enabledSensors' = enabled
  /\ clickPc' = next.pc
  /\ requests' = next.requests
  /\ suspensions' = suspensions + 1

\* the prompt of DeviceMotionEvent.requestPermission() was answered
MotionAnswered(answer) ==
  /\ clickPc = "motion"
  /\ IF answer = "granted" /\ hostApi.orientation
     THEN /\ clickPc' = "orientation"
          /\ requests' = Issue(requests, "orientation", suspensions + 1)
          /\ suspensions' = suspensions + 1
          /\ permissionGranted' = [permissionGranted EXCEPT !.imu = TRUE]
          /\ UNCHANGED enabledSensors
     ELSE /\ ImuResult(answer = "granted")
          /\ permissionGranted' =
               [permissionGranted EXCEPT !.imu = @ \/ answer = "granted"]
  /\ UNCHANGED <<hostApi, pageRest>>

\* the prompt of DeviceOrientationEvent.requestPermission() was answered:
\* requestPermission returns permissionGranted, or false after an exception
OrientationAnswered(answer) ==
  /\ clickPc = "orientation"
  /\ ImuResult(answer # "error" /\ permissionGranted.imu)
  /\ UNCHANGED <<permissionGranted, hostApi, pageRest>>

\* requestPermission of the IMU manager returned true without a prompt
ImuReturned ==
  /\ clickPc = "imuReturn"
  /\ ImuResult(TRUE)
  /\ UNCHANGED <<permissionGranted, hostApi, pageRest>>

\* requestPermission of the GPS manager has returned result
GpsResult(result) ==
  /\ enabledSensors' = [enabledSensors EXCEPT !.gps = enabledSensors.gps /\ result]
  /\ clickPc' = "startSession"
  /\ suspensions' = suspensions + 1
  /\ UNCHANGED requests

\* a callback of getCurrentPosition was called
GeolocationAnswered(granted) ==
  /\ clickPc = "geolocation"
  /\ GpsResult(granted)
  /\ permissionGranted' = [permissionGranted EXCEPT !.gps = granted]
  /\ UNCHANGED <<hostApi, pageRest>>

\* requestPermission of the GPS manager returned false without a prompt
GpsReturned ==
  /\ clickPc = "gpsReturn"
  /\ GpsResult(FALSE)
  /\ UNCHANGED <<permissionGranted, hostApi, pageRest>>

(***************************************************************************)
(* SERVER: start and shutdown of the process                               *)
(***************************************************************************)
VARIABLES
  app,          \* startApp: "starting", "running" or "failed"
  httpsServer,  \* the HTTPS server: "created", "listening", "closing", "closed"
  rosShutdown,  \* rclnodejs.isShutdown()
  invocations,  \* the calls of shutdown() that are under way, in order
  exitCode,     \* the argument of process.exit, "none" while the process runs
  shutdownLog   \* what the shutdown sequences have logged (history)

procVars == <<app, httpsServer, rosShutdown, invocations, exitCode, shutdownLog>>

\* the two setTimeout delays, in seconds
ShutdownTimeout == 3
ServerCloseTimeout == 2
\* a timer that is not pending
Off == 0 - 1

Triggers == {"SIGINT", "SIGTERM", "uncaughtException"}

InitProcess ==
  /\ app = "starting"
  /\ httpsServer = "created"
  /\ rosShutdown = FALSE
  /\ invocations = <<>>
  /\ exitCode = "none"
  /\ shutdownLog = {}

\* the process once startApp has returned true
AppStarted ==
  /\ app = "running"
  /\ httpsServer = "listening"
  /\ rosShutdown = FALSE
  /\ invocations = <<>>
  /\ exitCode = "none"
  /\ shutdownLog = {}

Running == exitCode = "none"
\* the HTTPS server accepts upgrade requests
Serving == Running /\ httpsServer = "listening"

\* startApp: initRos and startServer resolved, startSpinning
StartAppOk ==
  /\ Running
  /\ app = "starting"
  /\ app' = "running"
  /\ httpsServer' = "listening"
  /\ UNCHANGED <<rosShutdown, invocations, exitCode, shutdownLog, serverVars>>

\* closeAllConnections: close() on every OPEN client of every server
closeAllConnections(states) ==
  [p \in PeerIds |->
     IF states[p] = "OPEN" /\ \E k \in ServerKeys : p \in clients[k]
     THEN "CLOSING" ELSE states[p]]

\* rosInterface.shutdown(): rclnodejs.shutdown() unless it is shut down
\* already; an exception is caught and the promise resolves in every case
RosShutdown(isShutdown, throws) == isShutdown \/ ~throws

\* stopServer: server.close(callback) stops the server listening
ServerClose(state) == IF state = "listening" THEN "closing" ELSE state

\* shutdown(), up to its second await: closeAllConnections, the timeout
\* promise, rosInterface.shutdown() winning the first race, then stopServer
\* with its own timer
shutdown(trigger, throws) ==
  /\ Len(invocations) < MaxInvocations
  /\ peerState' = closeAllConnections(peerState)
  /\ rosShutdown' = RosShutdown(rosShutdown, throws)
  /\ httpsServer' = ServerClose(httpsServer)
  /\ invocations' = Append(invocations,
                           [trigger |-> trigger, timeout |-> ShutdownTimeout,
                            stop |-> ServerCloseTimeout, closeCb |-> TRUE])
  /\ shutdownLog' = shutdownLog \cup (IF ~rosShutdown /\ throws THEN {"rosError"} ELSE {})
  /\ UNCHANGED <<exitCode, clients, ttsClients, peerPath, peerJoined, outbox, busLog,
                 lastFanout, lastUpgrade>>

\* SIGINT, SIGTERM or an uncaught exception: the listener calls shutdown()
Signal(trigger, throws) ==
  /\ Running
  /\ shutdown(trigger, throws)
  /\ UNCHANGED app

\* startApp: initRos or startServer rejected; catch { await shutdown() }
StartAppFails(throws) ==
  /\ Running
  /\ app = "starting"
  /\ app' = "failed"
  /\ shutdown("startApp", throws)

\* the second race of invocation inv is settled: by the callback of
\* server.close, by the timer of stopServer or by the timeout promise
RaceSettled_onClose(inv) == ~inv.closeCb
RaceSettled(inv) == ~inv.closeCb \/ inv.stop = 0 \/ inv.timeout = 0

\* the rest of shutdown() after the second race: 'Application shutdown
\* complete', then finally { process.exit(0) }
Finish(events) ==
  /\ shutdownLog' = shutdownLog \cup events \cup {"complete"}
  /\ exitCode' = "0"

\* the 'close' event of the HTTPS server, once no connection is left: every
\* callback given to server.close is called and clears its timer; the
\* invocation that called close first goes on first
HttpsClosed ==
  LET called == [i \in 1..Len(invocations) |->
                   [invocations[i] EXCEPT !.closeCb = FALSE, !.stop = Off]] IN
  /\ Running
  /\ invocations # <<>>
  /\ \A p \in PeerIds : peerState[p] \in {"NONE", "CLOSED"}
  /\ httpsServer' = "closed"
  /\ invocations' = called
  /\ IF RaceSettled(called[1]) THEN Finish({"closed"})
     ELSE UNCHANGED <<shutdownLog, exitCode>>
  /\ UNCHANGED <<app, rosShutdown, serverVars>>

Pending(t) == t # Off
Timers == {invocations[i].timeout : i \in 1..Len(invocations)}
            \cup {invocations[i].stop : i \in 1..Len(invocations)}

\* one second passes: no timer is due
Tick ==
  /\ Running
  /\ \E t \in Timers : Pending(t)
  /\ 0 \notin Timers
  /\ invocations' = [i \in 1..Len(invocations) |->
                       [invocations[i] EXCEPT
                          !.timeout = IF Pending(@) THEN @ - 1 ELSE @,
                          !.stop = IF Pending(@) THEN @ - 1 ELSE @]]
  /\ UNCHANGED <<app, httpsServer, rosShutdown, exitCode, shutdownLog, serverVars>>

\* a timer of invocation i is due: 'Server close operation timed out,
\* forcing resolution' or 'Shutdown taking too long, forcing exit'; the race
\* is settled and the invocation goes on to the exit
TimerFires(i) ==
  /\ Running
  /\ i \in 1..Len(invocations)
  /\ invocations[i].stop = 0 \/ invocations[i].timeout = 0
  /\ IF RaceSettled(invocations[i])
     THEN Finish(IF invocations[i].stop = 0 THEN {"stopTimedOut"} ELSE {"tooLong"})
     ELSE UNCHANGED <<shutdownLog, exitCode>>
  /\ invocations' = [invocations EXCEPT
                       ![i].stop = IF @ = 0 THEN Off ELSE @,
                       ![i].timeout = IF invocations[i].stop # 0 /\ @ = 0 THEN Off ELSE @]
  /\ UNCHANGED <<app, httpsServer, rosShutdown, serverVars>>

(***************************************************************************)
(* SERVER: the 'message' handlers of the producer channels                 *)
(* (websocket_handlers.js setupPoseHandlers, setupCameraHandlers,          *)
(* setupMicrophoneHandlers, setupIMUHandlers, setupGPSHandlers) and the    *)
(* publish functions of ros_interface.js they call                         *)
(***************************************************************************)
VARIABLES
  prodChan,     \* the channel of the producer connection under study
  prodOpen,     \* that connection is open (readyState OPEN on the server)
  rxLog,        \* history: the messages received on it, in arrival order
  bus,          \* the messages published on the bus, oldest first
  escaped       \* history: arrival indexes whose handler let an exception out

producerVars == <<prodChan, prodOpen, rxLog, bus, escaped>>

\* a JSON member: a number, null, or not there at all
N(v) == [t |-> "num", v |-> v]
Null == [t |-> "null", v |-> 0]
Missing == [t |-> "absent", v |-> 0]
IsNum(f) == f.t = "num"
\* JavaScript truthiness of a member, and  member || 0.0
Truthy(f) == f.t = "num" /\ f.v # 0
OrZero(f) == IF Truthy(f) THEN f.v ELSE 0
\* a quotient the code computes with '/', kept exact
Ratio(a, b) == [num |-> a, den |-> b]

\* characters of a camera payload: base64 digits are their 6-bit values
Comma == 64
\* some character that is not a base64 digit, as in 'data:image/jpeg;base64'
Colon == Comma + 1
Text(s) == [t |-> "str", s |-> s]
NoText == [t |-> "absent", s |-> <<>>]
\* String.prototype.split(',') : the pieces between the commas
RECURSIVE split(_)
split(s) ==
  IF \E i \in 1..Len(s) : s[i] = Comma
  THEN LET i == CHOOSE k \in 1..Len(s) :
                  s[k] = Comma /\ \A j \in 1..(k - 1) : s[j] # Comma
       IN <<SubSeq(s, 1, i - 1)>> \o split(SubSeq(s, i + 1, Len(s)))
  ELSE <<s>>

\* Buffer.from(text, 'base64'): four digits make three bytes, a tail of two
\* or three digits makes one or two
RECURSIVE BufferFromBase64(_)
BufferFromBase64(s) ==
  IF Len(s) < 2 THEN <<>>
  ELSE LET b0 == s[1] * 4 + s[2] \div 16 IN
       IF Len(s) = 2 THEN <<b0>>
       ELSE LET b1 == (s[2] % 16) * 16 + s[3] \div 4 IN
            IF Len(s) = 3 THEN <<b0, b1>>
            ELSE <<b0, b1, (s[3] % 4) * 64 + s[4]>>
                   \o BufferFromBase64(SubSeq(s, 5, Len(s)))

DefaultWidth == 640
DefaultHeight == 480
DefaultAccuracy == 1

\* { sec: Math.floor(t / 1000), nanosec: (t % 1000) * 1000000 }, of the
\* message's timestamp or else of the server's clock
Stamp(timestamp) ==
  IF Truthy(timestamp)
  THEN [clock |-> FALSE, sec |-> timestamp.v \div 1000,
        nanosec |-> (timestamp.v % 1000) * 1000000]
  ELSE [clock |-> TRUE, sec |-> 0, nanosec |-> 0]

\* ros_interface.js publishCameraData: the image, then the camera info
publishCameraData_imageOnly(imageBuffer, width, height, timestamp) ==
  LET header == [stamp |-> timestamp, frame_id |-> "camera_frame"] IN
  << [topic |-> "camera/image_raw/compressed",
      msg |-> [header |-> header, format |-> "jpeg", data |-> imageBuffer]] >>
publishCameraData(imageBuffer, width, height, timestamp) ==
  LET header == [stamp |-> timestamp, frame_id |-> "camera_frame"] IN
  << [topic |-> "camera/image_raw/compressed",
      msg |-> [header |-> header, format |-> "jpeg", data |-> imageBuffer]],
     [topic |-> "camera/camera_info",
      msg |-> [header |-> header, height |-> height, width |-> width,
               k |-> <<Ratio(width, 1), Ratio(0, 1), Ratio(width, 2),
                       Ratio(0, 1), Ratio(height, 1), Ratio(height, 2),
                       Ratio(0, 1), Ratio(0, 1), Ratio(1, 1)>>]] >>

\* ros_interface.js publishPoseData
publishPoseData(poseData) ==
  << [topic |-> "mobile_sensor/pose",
      msg |-> [position |-> [x |-> poseData.position.x, y |-> poseData.position.y,
                             z |-> poseData.position.z],
               orientation |-> [x |-> poseData.orientation.x,
                                y |-> poseData.orientation.y,
                                z |-> poseData.orientation.z,
                                w |-> poseData.orientation.w]]] >>

\* ros_interface.js publishMicrophoneTranscription:  timestamp || { now }
publishMicrophoneTranscription(transcription, timestamp) ==
  << [topic |-> "mobile_sensor/speech",
      msg |-> [header |-> [stamp |-> IF timestamp.t = "obj"
                                     THEN [clock |-> FALSE, sec |-> timestamp.sec,
                                           nanosec |-> timestamp.nanosec]
                                     ELSE Stamp(Missing),
                           frame_id |-> "microphone_frame"],
               data |-> transcription.s]] >>

\* ros_interface.js publishIMUData
publishIMUData_unmapped(imuData, timestamp) ==
  << [topic |-> "mobile_sensor/imu",
      msg |-> [header |-> [stamp |-> timestamp, frame_id |-> "imu_frame"],
               yaw |-> OrZero(imuData.magnetometer.z),
               linear_acceleration |->
                 [x |-> OrZero(imuData.accelerometer.x),
                  y |-> OrZero(imuData.accelerometer.y),
                  z |-> OrZero(imuData.accelerometer.z)],
               angular_velocity |->
                 [x |-> OrZero(imuData.gyroscope.alpha),
                  y |-> OrZero(imuData.gyroscope.beta),
                  z |-> OrZero(imuData.gyroscope.gamma)]]] >>
publishIMUData(imuData, timestamp) ==
  << [topic |-> "mobile_sensor/imu",
      msg |-> [header |-> [stamp |-> timestamp, frame_id |-> "imu_frame"],
               yaw |-> OrZero(imuData.magnetometer.z),
               linear_acceleration |->
                 [x |-> OrZero(imuData.accelerometer.x),
                  y |-> OrZero(imuData.accelerometer.y),
                  z |-> OrZero(imuData.accelerometer.z)],
               angular_velocity |->
                 [x |-> OrZero(imuData.gyroscope.beta),
                  y |-> OrZero(imuData.gyroscope.alpha),
                  z |-> OrZero(imuData.gyroscope.gamma)]]] >>

\* ros_interface.js publishGPSData
publishGPSData_linear(gpsData, timestamp) ==
  LET altitude == IF gpsData.altitude.t # "null" /\ IsNum(gpsData.altitude)
                  THEN gpsData.altitude.v ELSE 0
      accuracy == IF Truthy(gpsData.accuracy) THEN gpsData.accuracy.v
                  ELSE DefaultAccuracy
      variance == accuracy
  IN << [topic |-> "mobile_sensor/gps",
         msg |-> [header |-> [stamp |-> timestamp, frame_id |-> "gps_frame"],
                  latitude |-> OrZero(gpsData.latitude),
                  longitude |-> OrZero(gpsData.longitude),
                  altitude |-> altitude,
                  position_covariance |->
                    [i \in 0..8 |-> IF i \in {0, 4, 8} THEN variance ELSE 0],
                  position_covariance_type |-> 2]] >>
publishGPSData(gpsData, timestamp) ==
  LET altitude == IF gpsData.altitude.t # "null" /\ IsNum(gpsData.altitude)
                  THEN gpsData.altitude.v ELSE 0
      accuracy == IF Truthy(gpsData.accuracy) THEN gpsData.accuracy.v
                  ELSE DefaultAccuracy
      variance == accuracy * accuracy
  IN << [topic |-> "mobile_sensor/gps",
         msg |-> [header |-> [stamp |-> timestamp, frame_id |-> "gps_frame"],
                  latitude |-> OrZero(gpsData.latitude),
                  longitude |-> OrZero(gpsData.longitude),
                  altitude |-> altitude,
                  position_covariance |->
                    [i \in 0..8 |-> IF i \in {0, 4, 8} THEN variance ELSE 0],
                  position_covariance_type |-> 2]] >>

\* what one run of a handler's try block does: the messages it publishes and
\* whether it raised
Published(msgs) == [pubs |-> msgs, thrown |-> FALSE]
Ignored == [pubs |-> <<>>, thrown |-> FALSE]
Raised == [pubs |-> <<>>, thrown |-> TRUE]

\* setupPoseHandlers, the body of the try
PoseTry(m) ==
  IF ~m.parse THEN Raised
  ELSE IF m.data.pose.t # "obj" THEN Ignored
  ELSE IF m.data.pose.position.t # "obj" \/ m.data.pose.orientation.t # "obj"
       THEN Raised
  ELSE Published(publishPoseData(m.data.pose))

\* setupCameraHandlers, the body of the outer try: the inner try decodes and
\* publishes, the inner catch logs
CameraTry(m) ==
  IF ~m.parse THEN Raised
  ELSE IF m.data.camera.t # "str" \/ m.data.camera.s = <<>> THEN Ignored
  ELSE LET pieces == split(m.data.camera.s) IN
       IF Len(pieces) < 2 THEN Raised
       ELSE Published(publishCameraData(
              BufferFromBase64(pieces[2]),
              IF Truthy(m.data.width) THEN m.data.width.v ELSE DefaultWidth,
              IF Truthy(m.data.height) THEN m.data.height.v ELSE DefaultHeight,
              Stamp(m.data.timestamp)))

\* setupMicrophoneHandlers, the body of the try
MicrophoneTry(m) ==
  IF ~m.parse THEN Raised
  ELSE IF m.data.transcription.t # "str" \/ m.data.transcription.s = <<>>
       THEN Ignored
  ELSE Published(publishMicrophoneTranscription(m.data.transcription,
                                                m.data.stamp))

\* setupIMUHandlers, the body of the try: the two debug lines format the six
\* components with toFixed before the sample is published
IMUTry(m) ==
  IF ~m.parse THEN Raised
  ELSE IF m.data.imu.t # "obj" THEN Ignored
  ELSE LET sample == m.data.imu IN
       IF \/ sample.accelerometer.t # "obj"
          \/ ~IsNum(sample.accelerometer.x) \/ ~IsNum(sample.accelerometer.y)
          \/ ~IsNum(sample.accelerometer.z)
          \/ sample.gyroscope.t # "obj"
          \/ ~IsNum(sample.gyroscope.alpha) \/ ~IsNum(sample.gyroscope.beta)
          \/ ~IsNum(sample.gyroscope.gamma)
          \/ sample.magnetometer.t # "obj"
       THEN Raised
       ELSE Published(publishIMUData(sample, Stamp(sample.timestamp)))

\* setupGPSHandlers, the body of the try: the debug line formats latitude,
\* longitude and altitude with toFixed before the fix is published
GPSTry(m) ==
  IF ~m.parse THEN Raised
  ELSE IF m.data.gps.t # "obj" THEN Ignored
  ELSE LET fix == m.data.gps IN
       IF ~IsNum(fix.latitude) \/ ~IsNum(fix.longitude) \/ ~IsNum(fix.altitude)
       THEN Raised
       ELSE Published(publishGPSData(fix, Stamp(fix.timestamp)))

Try(chan, m) ==
  CASE chan = "pose" -> PoseTry(m)
    [] chan = "camera" -> CameraTry(m)
    [] chan = "microphone" -> MicrophoneTry(m)
    [] chan = "imu" -> IMUTry(m)
    [] chan = "gps" -> GPSTry(m)

\* every handler wraps its body in try / catch, and the catch only logs
Catches_none(chan) == FALSE
Catches(chan) == chan \in Producers

\* publisher.publish appends to the topic's stream; the entry remembers the
\* arrival index of the message it came from and the arrival count at the
\* time of the publish
Publish_front(published, msgs, of, at) ==
  [i \in 1..Len(msgs) |-> [topic |-> msgs[i].topic, msg |-> msgs[i].msg,
                           of |-> of, at |-> at]] \o published
Publish(published, msgs, of, at) ==
  published \o [i \in 1..Len(msgs) |->
                 [topic |-> msgs[i].topic, msg |-> msgs[i].msg,
                  of |-> of, at |-> at]]

\* a 'message' event of the connection: the whole handler runs, from
\* JSON.parse to the last publish, before the next event is taken
Receive(m) ==
  /\ prodOpen
  /\ Len(rxLog) < MaxRx
  /\ rxLog' = Append(rxLog, m)
  /\ LET r == Try(prodChan, m)
         n == Len(rxLog) + 1
     IN /\ bus' = Publish(bus, r.pubs, n, n)
        /\ escaped' = IF r.thrown /\ ~Catches(prodChan)
                      THEN escaped \cup {n} ELSE escaped
  /\ UNCHANGED <<prodChan, prodOpen>>

\* the 'close' event of the connection: the handler only logs
ProducerClosed ==
  /\ prodOpen
  /\ prodOpen' = FALSE
  /\ UNCHANGED <<prodChan, rxLog, bus, escaped>>

\* -- the messages a producer connection may carry -------------------------
Vec3(t, x, y, z) == [t |-> t, x |-> x, y |-> y, z |-> z]
PoseObjects ==
  { [t |-> "obj", position |-> p, orientation |-> o] :
      p \in {Vec3("obj", 1, 2, 3), Vec3("absent", 0, 0, 0)},
      o \in {[t |-> "obj", x |-> 0, y |-> 0, z |-> 0, w |-> 1],
             [t |-> "absent", x |-> 0, y |-> 0, z |-> 0, w |-> 0]} }
    \cup {[t |-> "absent", position |-> Vec3("absent", 0, 0, 0),
           orientation |-> [t |-> "absent", x |-> 0, y |-> 0, z |-> 0, w |-> 0]]}
PoseData == [pose : PoseObjects, timestamp : {N(1500)}]

Base64Texts == {<<63, 48>>, <<16, 32, 48, 1, 2, 3>>}
CameraPayloads ==
  {NoText, Text(<<>>)}
    \cup {Text(b) : b \in Base64Texts}
    \cup {Text(<<Colon, Comma>> \o b) : b \in Base64Texts}
CameraSizes == {<<Missing, Missing>>, <<N(640), N(480)>>, <<N(3), N(480)>>}
CameraData ==
  { [camera |-> p, width |-> s[1], height |-> s[2], timestamp |-> t] :
      p \in CameraPayloads, s \in CameraSizes, t \in {Missing, N(1500)} }

MicrophoneData ==
  [transcription : {NoText, Text(<<>>), Text(<<1, 2>>), Text(<<3>>)},
   stamp : {[t |-> "obj", sec |-> 1, nanosec |-> 5],
            [t |-> "absent", sec |-> 0, nanosec |-> 0]}]

Accelerometers ==
  {Vec3("obj", N(1), N(2), N(3)), Vec3("obj", N(0), N(2), N(3)),
   Vec3("obj", Missing, N(2), N(3)), Vec3("absent", Missing, Missing, Missing)}
Gyroscopes ==
  { [t |-> "obj", alpha |-> N(4), beta |-> N(5), gamma |-> N(6)],
    [t |-> "obj", alpha |-> N(4), beta |-> Null, gamma |-> N(6)],
    [t |-> "obj", alpha |-> N(0), beta |-> N(5), gamma |-> N(6)] }
Magnetometers ==
  {[t |-> "obj", z |-> N(90)], [t |-> "obj", z |-> Missing],
   [t |-> "absent", z |-> Missing]}
IMUObjects ==
  [t : {"obj"}, accelerometer : Accelerometers, gyroscope : Gyroscopes,
   magnetometer : Magnetometers, timestamp : {N(1500)}]
    \cup {[t |-> "absent", accelerometer |-> Vec3("absent", Missing, Missing, Missing),
           gyroscope |-> [t |-> "obj", alpha |-> N(4), beta |-> N(5), gamma |-> N(6)],
           magnetometer |-> [t |-> "absent", z |-> Missing],
           timestamp |-> Missing]}
IMUData == [imu : IMUObjects]

GPSObjects ==
  [t : {"obj"}, latitude : {N(48), Missing}, longitude : {N(2)},
   altitude : {N(100), N(0), Null, Missing},
   accuracy : {N(5), N(0), Missing}, timestamp : {N(1500)}]
    \cup {[t |-> "absent", latitude |-> Missing, longitude |-> Missing,
           altitude |-> Missing, accuracy |-> Missing, timestamp |-> Missing]}
GPSData == [gps : GPSObjects]

Parsed(chan) ==
  CASE chan = "pose" -> PoseData
    [] chan = "camera" -> CameraData
    [] chan = "microphone" -> MicrophoneData
    [] chan = "imu" -> IMUData
    [] chan = "gps" -> GPSData

\* the frames of a channel: JSON texts with their parsed value, and one text
\* that JSON.parse rejects
Frames(chan) ==
  {[parse |-> TRUE, data |-> d] : d \in Parsed(chan)}
    \cup {[parse |-> FALSE, data |-> CHOOSE d \in Parsed(chan) : TRUE]}

\* a producer connection has just been accepted, nothing received yet
InitProducer ==
  /\ prodChan \in Producers
  /\ prodOpen = TRUE
  /\ rxLog = <<>>
  /\ bus = <<>>
  /\ escaped = {}

\* no producer connection under study
NoProducer ==
  /\ prodChan = "pose"
  /\ prodOpen = FALSE
  /\ rxLog = <<>>
  /\ bus = <<>>
  /\ escaped = {}

(***************************************************************************)
(* CLIENT: playback of the audio received on /wav_audio (audioPlayer.js    *)
(* processAudioData, addWavHeader, playAudioData, playAudioWithWebAudio,   *)
(* playNextInQueue)                                                        *)
(***************************************************************************)
VARIABLES
  arrivals,   \* history: the binary messages given to processAudioData
  handed,     \* history: what processAudioData made of each of them
  starting,   \* arrival indexes whose playback is being started: awaiting
              \* decodeAudioData (iOS) or the promise of audio.play()
  sounding,   \* arrival indexes that are audible
  startLog    \* history: arrival indexes in the order their playback began

playbackVars == <<arrivals, handed, starting, sounding, startLog>>

\* DataView.setUint32(offset, v, true) and setUint16(offset, v, true)
Uint32LE(v) ==
  <<v % 256, (v \div 256) % 256, (v \div 65536) % 256, (v \div 16777216) % 256>>
Uint16LE(v) == <<v % 256, (v \div 256) % 256>>

\* addWavHeader: 44 bytes of RIFF/WAVE header, then the data
addWavHeader_fileSize(audioData) ==
  LET dataSize == Len(audioData) IN
  <<82, 73, 70, 70>> \o Uint32LE(44 + dataSize) \o <<87, 65, 86, 69>>
    \o <<102, 109, 116, 32>> \o Uint32LE(16) \o Uint16LE(1) \o Uint16LE(1)
    \o Uint32LE(48000) \o Uint32LE(96000) \o Uint16LE(2) \o Uint16LE(16)
    \o <<100, 97, 116, 97>> \o Uint32LE(dataSize) \o audioData
addWavHeader(audioData) ==
  LET numChannels == 1
      sampleRate == 48000
      bitsPerSample == 16
      dataSize == Len(audioData)
      blockAlign == numChannels * (bitsPerSample \div 8)
      byteRate == sampleRate * blockAlign
      header ==
        <<82, 73, 70, 70>> \o Uint32LE(36 + dataSize) \o <<87, 65, 86, 69>>
          \o <<102, 109, 116, 32>> \o Uint32LE(16) \o Uint16LE(1)
          \o Uint16LE(numChannels) \o Uint32LE(sampleRate) \o Uint32LE(byteRate)
          \o Uint16LE(blockAlign) \o Uint16LE(bitsPerSample)
          \o <<100, 97, 116, 97>> \o Uint32LE(dataSize)
  IN header \o audioData

\* processAudioData, its first half: the data is left alone when its first 12
\* bytes read RIFF....WAVE
isRiffWave_never(audioData) == FALSE
isRiffWave(audioData) ==
  /\ Len(audioData) >= 12
  /\ SubSeq(audioData, 1, 4) = <<82, 73, 70, 70>>
  /\ SubSeq(audioData, 9, 12) = <<87, 65, 86, 69>>
processedData(audioData) ==
  IF isRiffWave(audioData) THEN audioData ELSE addWavHeader(audioData)

\* the rest of the page does not move while the player plays
PlayerRest ==
  UNCHANGED <<isSessionActive, enabledSensors, sockets, ws, autoReconnect,
              audioConfigEnabled, playerSessionActive, xrSession, xrPending,
              fetching, adapterVars, lastStop, toggles, deviceVars, held, emitted>>

\* processAudioData, its second half: currentlyPlaying is isPlaying on iOS
\* and, elsewhere, some audio element in use whose currentTime has advanced
currentlyPlaying == IF IsIOS THEN isPlaying ELSE sounding # {}

\* ws.onmessage with binary data, the session being active: the whole of
\* processAudioData, up to the first await of playAudioWithWebAudio or to
\* the call of audio.play()
AudioReceived(audioData) ==
  /\ playerSessionActive
  /\ ws.wav_audio # 0
  /\ sockets[ws.wav_audio].readyState = "OPEN"
  /\ Len(arrivals) < MaxBuffers
  /\ arrivals' = Append(arrivals, audioData)
  /\ handed' = Append(handed, processedData(audioData))
  /\ IF currentlyPlaying
     THEN /\ audioQueue' = Append(audioQueue, [n |-> Len(arrivals) + 1,
                                               data |-> processedData(audioData)])
          /\ UNCHANGED starting
     ELSE /\ starting' = starting \cup {Len(arrivals) + 1}
          /\ UNCHANGED audioQueue
  /\ UNCHANGED <<isPlaying, sounding, startLog>>
  /\ PlayerRest

\* playNextInQueue, with the start of the next buffer
playNextInQueue(pending) ==
  IF audioQueue # <<>>
  THEN /\ audioQueue' = Tail(audioQueue)
       /\ starting' = pending \cup {Head(audioQueue).n}
       /\ UNCHANGED isPlaying
  ELSE /\ isPlaying' = FALSE
       /\ starting' = pending
       /\ UNCHANGED audioQueue

\* decodeAudioData resolved and source.start(0) ran, or the promise of
\* audio.play() resolved: the buffer is audible and isPlaying is set
StartResolved(n) ==
  /\ n \in starting
  /\ starting' = starting \ {n}
  /\ sounding' = sounding \cup {n}
  /\ startLog' = Append(startLog, n)
  /\ isPlaying' = TRUE
  /\ UNCHANGED <<arrivals, handed, audioQueue>>
  /\ PlayerRest

\* decodeAudioData or audio.play() rejected: the catch goes on with the queue
StartRejected(n) ==
  /\ n \in starting
  /\ playNextInQueue(starting \ {n})
  /\ UNCHANGED <<arrivals, handed, sounding, startLog>>
  /\ PlayerRest

\* source.onended or audioElement.onended
SourceEnded(n) ==
  /\ n \in sounding
  /\ sounding' = sounding \ {n}
  /\ playNextInQueue(starting)
  /\ UNCHANGED <<arrivals, handed, startLog>>
  /\ PlayerRest

\* the binary messages of the model: raw PCM of several lengths, twelve bytes
\* that begin with RIFF only, and a complete WAV file
Pcm(n) == [i \in 1..n |-> (i * 37) % 256]
\* so many raw bytes make a RIFF size of 256, whose second byte is not 0
LongPcm == 256 - 36
AudioBuffers ==
  {Pcm(0), Pcm(3), <<82, 73, 70, 70>> \o Pcm(8), Pcm(LongPcm), addWavHeader(Pcm(2))}

\* nothing received yet
NoAudio ==
  /\ arrivals = <<>>
  /\ handed = <<>>
  /\ starting = {}
  /\ sounding = {}
  /\ startLog = <<>>

\* a running session with only the audio box ticked, in wav mode: the
\* /wav_audio socket is open and the server's sessionState 'active' has come
ListeningPlayer ==
  /\ platform \in {"ios", "android"}
  /\ audioMode = "wav"
  /\ isSessionActive = TRUE
  /\ enabledSensors = [s \in Sensors |-> s = "audio"]
  /\ sockets = <<[NewWebSocket("wav_audio", 0) EXCEPT !.readyState = "OPEN"]>>
  /\ ws = [ch \in ClientChannels |-> IF ch = "wav_audio" THEN 1 ELSE 0]
  /\ autoReconnect = [ch \in AudioChannels |-> TRUE]
  /\ audioConfigEnabled = TRUE
  /\ playerSessionActive = TRUE
  /\ xrSession = "none"
  /\ xrPending = 0
  /\ fetching = <<>>
  /\ cameraStarted = FALSE
  /\ cameraAcquiring = 0
  /\ imu = [isActive |-> FALSE, intervalId |-> FALSE]
  /\ gps = [isActive |-> FALSE, watchId |-> FALSE]
  /\ speechRecognitionStarted = FALSE
  /\ audioQueue = <<>>
  /\ isPlaying = FALSE
  /\ toggles = 0
  /\ held = [imu |-> 0, gps |-> 0, camera |-> 0, speech |-> 0, encoding |-> FALSE]
  /\ emitted = {}
  /\ lastStop = NoStop

(***************************************************************************)
(* CLIENT: the wake-word gate of the speech adapter (speechRecognition.js  *)
(* constructor, loadConfigFromServer, recognizer.onresult and its timer).  *)
(* A text is the sequence of its characters.                               *)
(***************************************************************************)
VARIABLES
  keyword,             \* this.keyword
  configLoaded,        \* loadConfigFromServer has settled
  transcriptionTimer,  \* seconds until this.transcriptionTimer fires, Off: none
  heard,               \* final results delivered so far
  accepted,            \* history: the results added to finalTranscripts since
                       \* it was last emptied
  quiet,               \* history: seconds since the last of them
  sentLog              \* history: the messages sent on the microphone socket

speechVars == <<keyword, configLoaded, transcriptionTimer, heard, accepted, quiet,
                sentLog>>

\* setTimeout(..., 2000), in seconds
TranscriptionDelay == 2

Robot == <<"r", "o", "b", "o", "t">>
\* microphone.wake_word of the served configuration
WakeWords == {Robot, <<"g", "o">>}
\* the final results the recognizer may deliver
Finals ==
  { <<"h", "e", "y", " ">> \o Robot,
    <<"g", "o", " ", "l", "e", "f", "t">>,
    Robot \o <<" ", "s", "t", "o", "p">>,
    <<"R">> \o Tail(Robot) \o <<" ", "g", "o">>,
    Robot \o <<"s", " ", "g", "o">>,
    <<"h", "e", "l", "l", "o">> }

\* String.prototype.toLowerCase, includes, split and Array.prototype.join
toLowerCase(s) == [i \in 1..Len(s) |-> IF s[i] = "R" THEN "r" ELSE s[i]]
includes(s, part) ==
  \E i \in 0..(Len(s) - Len(part)) : SubSeq(s, i + 1, i + Len(part)) = part
RECURSIVE splitOn(_, _)
splitOn(s, sep) ==
  IF \E i \in 1..Len(s) : s[i] = sep
  THEN LET i == CHOOSE k \in 1..Len(s) :
                  s[k] = sep /\ \A j \in 1..(k - 1) : s[j] # sep
       IN <<SubSeq(s, 1, i - 1)>> \o splitOn(SubSeq(s, i + 1, Len(s)), sep)
  ELSE <<s>>
RECURSIVE join(_, _)
join(words, sep) ==
  IF words = <<>> THEN <<>>
  ELSE IF Len(words) = 1 THEN words[1]
  ELSE words[1] \o <<sep>> \o join(Tail(words), sep)

\* Array.prototype.findIndex of the word that is the keyword, from 0, and
\* -1 when there is none
findIndex(words, word) ==
  IF \E i \in 1..Len(words) : toLowerCase(words[i]) = word
  THEN (CHOOSE i \in 1..Len(words) :
          /\ toLowerCase(words[i]) = word
          /\ \A j \in 1..(i - 1) : toLowerCase(words[j]) # word) - 1
  ELSE 0 - 1

\* the timer callback's text: split_arr.splice(key_idx + 1).join(" ")
Prompt(transcripts, word) ==
  LET split_arr == splitOn(transcripts, " ")
      key_idx == findIndex(split_arr, word)
  IN join(SubSeq(split_arr, key_idx + 2, Len(split_arr)), " ")

SpeechRest ==
  UNCHANGED <<adSock, adActive, sampleNo, wire, dropped, cameraEncoding, adRaised>>

\* loadConfigFromServer, after its awaits: the served wake word replaces the
\* default, or the fetch failed and the default stays
ConfigLoaded(ok, word) ==
  /\ ~configLoaded
  /\ configLoaded' = TRUE
  /\ keyword' = IF ok THEN word ELSE keyword
  /\ UNCHANGED <<transcriptionTimer, heard, accepted, quiet, sentLog,
                 finalTranscripts>>
  /\ SpeechRest

\* recognizer.onresult with one final result
OnResult(transcript) ==
  /\ adSock["speech"] # "NULL"
  /\ heard < MaxFinals
  /\ heard' = heard + 1
  /\ IF \/ includes(toLowerCase(transcript), keyword)
        \/ includes(toLowerCase(finalTranscripts), keyword)
     THEN /\ finalTranscripts' = finalTranscripts \o transcript
          /\ transcriptionTimer' = TranscriptionDelay
          /\ accepted' = Append(accepted, transcript)
          /\ quiet' = 0
     ELSE UNCHANGED <<finalTranscripts, transcriptionTimer, accepted, quiet>>
  /\ UNCHANGED <<keyword, configLoaded, sentLog>>
  /\ SpeechRest

\* a second goes by while the timer is pending and not due
SpeechSecond ==
  /\ transcriptionTimer > 0
  /\ transcriptionTimer' = transcriptionTimer - 1
  /\ quiet' = quiet + 1
  /\ UNCHANGED <<keyword, configLoaded, heard, accepted, sentLog, finalTranscripts>>
  /\ SpeechRest

\* the callback of this.transcriptionTimer
PromptTimer ==
  /\ transcriptionTimer = 0
  /\ sentLog' = IF SocketUsable(adSock["speech"])
                THEN Append(sentLog,
                            [transcription |-> Prompt(finalTranscripts, keyword),
                             from |-> accepted, keyword |-> keyword,
                             quiet |-> quiet])
                ELSE sentLog
  /\ finalTranscripts' = <<>>
  /\ accepted' = <<>>
  /\ transcriptionTimer' = Off
  /\ UNCHANGED <<keyword, configLoaded, heard, quiet>>
  /\ SpeechRest

\* the adapter as constructed, its configuration not yet loaded
NoSpeech ==
  /\ keyword = Robot
  /\ configLoaded = FALSE
  /\ transcriptionTimer = Off
  /\ heard = 0
  /\ accepted = <<>>
  /\ quiet = 0
  /\ sentLog = <<>>

\* speech recognition has been started with the open microphone socket
InitListening ==
  /\ adSock = [a \in Adapters |-> IF a = "speech" THEN "OPEN" ELSE "NULL"]
  /\ adActive = [a \in Flagged |-> FALSE]
  /\ sampleNo = 0
  /\ wire = {}
  /\ dropped = {}
  /\ cameraEncoding = 0
  /\ finalTranscripts = <<>>
  /\ adRaised = FALSE
  /\ NoSpeech

(***************************************************************************)
(* CLIENT: the pool of audio elements of audioPlayer.js on Android         *)
(* (createAudioElements, getAvailableAudioElement, playAudioData)          *)
(***************************************************************************)
VARIABLES
  audioElements,     \* the audio elements, in creation order
  currentAudioIndex, \* the round-robin index, counted from 0
  creations,       \* calls of createAudioElements so far
  allocations        \* history: every call of getAvailableAudioElement, with
                     \* the pool it found

poolVars == <<audioElements, currentAudioIndex, creations, allocations>>

MAX_AUDIO_ELEMENTS == 3

\* document.createElement('audio') with dataset.available = 'true'; promise
\* is a pending promise of play(), aborted counts the promises of earlier
\* uses that pause() or load() rejected and whose catch has not run yet
NewAudioElement ==
  [available |-> TRUE, src |-> FALSE, paused |-> TRUE, ended |-> FALSE,
   error |-> FALSE, currentTime |-> 0, promise |-> FALSE, aborted |-> 0]

\* createAudioElements: the loop from i to MAX_AUDIO_ELEMENTS - 1
RECURSIVE createLoop(_, _)
createLoop(elements, i) ==
  IF i >= MAX_AUDIO_ELEMENTS THEN elements
  ELSE createLoop(IF Len(elements) < MAX_AUDIO_ELEMENTS
                  THEN Append(elements, NewAudioElement)
                  ELSE elements, i + 1)
createAudioElements(elements) == createLoop(elements, 0)

\* the player's state as one value: what the functions below pass along
Player ==
  [elements |-> audioElements, index |-> currentAudioIndex, queue |-> audioQueue,
   playing |-> isPlaying, log |-> allocations]
Becomes(p) ==
  /\ audioElements' = p.elements
  /\ currentAudioIndex' = p.index
  /\ audioQueue' = p.queue
  /\ isPlaying' = p.playing
  /\ allocations' = p.log

\* the test of the first loop of getAvailableAudioElement
Free(audio) == audio.available /\ (~audio.src \/ audio.ended \/ audio.paused)

\* audio.pause(): a playing element is paused and its pending promise of
\* play() is rejected
pause(audio) ==
  IF audio.paused THEN audio
  ELSE [audio EXCEPT !.paused = TRUE, !.promise = FALSE,
                     !.aborted = @ + (IF audio.promise THEN 1 ELSE 0)]

\* getAvailableAudioElement: the first free element in creation order, else
\* the element after currentAudioIndex, paused; either is marked in use
getAvailableAudioElement(elements, index) ==
  LET free == {k \in 1..Len(elements) : Free(elements[k])}
      next == (index + 1) % Len(elements)
  IN IF free # {}
     THEN LET k == CHOOSE f \in free : \A g \in free : f <= g
          IN [elements |-> [elements EXCEPT ![k].available = FALSE],
              index |-> index, chosen |-> k]
     ELSE [elements |-> [elements EXCEPT ![next + 1] =
                           [pause(elements[next + 1]) EXCEPT !.available = FALSE]],
           index |-> next, chosen |-> next + 1]

\* audioElement.src = url; load(); play(): the element forgets its error and
\* its position, a promise still pending is rejected, and the element is
\* no longer paused while the new promise is pending
loadAndPlay(audio) ==
  [audio EXCEPT !.src = TRUE, !.ended = FALSE, !.error = FALSE,
                !.currentTime = 0, !.paused = FALSE, !.promise = TRUE,
                !.aborted = @ + (IF audio.promise THEN 1 ELSE 0)]

\* playAudioData on Android
playAudioData(p) ==
  IF Len(p.elements) = 0 THEN p
  ELSE LET got == getAvailableAudioElement(p.elements, p.index)
           k == got.chosen
       IN [p EXCEPT !.elements = [got.elements EXCEPT ![k] = loadAndPlay(@)],
                    !.index = got.index,
                    !.log = Append(@, [before |-> p.elements, index |-> p.index,
                                       chosen |-> k, after |-> got.index,
                                       marked |-> ~got.elements[k].available])]

\* playNextInQueue
playNext(p) ==
  IF p.queue # <<>>
  THEN playAudioData([p EXCEPT !.queue = Tail(@)])
  ELSE [p EXCEPT !.playing = FALSE]

\* the rest of the page does not move while the pool works
PoolRest == PlayerRest /\ UNCHANGED playbackVars

\* createAudioElements called again: by fetchConfig when /api/config has
\* answered, after the call of DOMContentLoaded
CreateAgain ==
  /\ creations < MaxInvocations
  /\ creations' = creations + 1
  /\ Becomes([Player EXCEPT !.elements = createAudioElements(@)])
  /\ PoolRest

\* ws.onmessage with binary data on Android, the header being in place:
\* the second half of processAudioData
PoolAudioReceived ==
  /\ playerSessionActive
  /\ Len(allocations) + Len(audioQueue) < MaxPlays
  /\ LET inPlayback ==
           \E k \in 1..Len(audioElements) :
             /\ ~audioElements[k].available
             /\ audioElements[k].currentTime > 0
             /\ ~audioElements[k].paused
             /\ ~audioElements[k].ended
     IN IF Len(audioElements) = 0 THEN Becomes(Player)
        ELSE IF inPlayback
        THEN Becomes([Player EXCEPT !.queue =
                        Append(@, [n |-> Len(allocations) + Len(audioQueue) + 1,
                                   data |-> addWavHeader(Pcm(0))])])
        ELSE Becomes(playAudioData(Player))
  /\ UNCHANGED creations
  /\ PoolRest

\* the promise of play() resolved: the element plays, 'play' fired
PlayResolved(k) ==
  /\ k \in 1..Len(audioElements)
  /\ audioElements[k].promise
  /\ Becomes([Player EXCEPT !.elements[k].promise = FALSE,
                            !.elements[k].currentTime = 1,
                            !.playing = TRUE])
  /\ UNCHANGED creations
  /\ PoolRest

\* the source could not be loaded or decoded: the element has an error and
\* is left as play() set it, not paused; onerror runs, then the catch of
\* playAudioData, and each marks the element available and goes on with the
\* queue
PlayFailed(k) ==
  /\ k \in 1..Len(audioElements)
  /\ audioElements[k].promise
  /\ LET failed == [Player EXCEPT !.elements[k].promise = FALSE,
                                  !.elements[k].error = TRUE,
                                  !.elements[k].available = TRUE]
         onerror == playNext(failed)
     IN Becomes(playNext([onerror EXCEPT !.elements[k].available = TRUE]))
  /\ UNCHANGED creations
  /\ PoolRest

\* playback reached the end: the element has ended and is paused; onended
PlayEnded(k) ==
  /\ k \in 1..Len(audioElements)
  /\ audioElements[k].currentTime > 0
  /\ ~audioElements[k].paused
  /\ ~audioElements[k].ended
  /\ Becomes(playNext([Player EXCEPT !.elements[k].ended = TRUE,
                                     !.elements[k].paused = TRUE,
                                     !.elements[k].available = TRUE]))
  /\ UNCHANGED creations
  /\ PoolRest

\* the catch of a promise that a later pause() or load() rejected
AbortCaught(k) ==
  /\ k \in 1..Len(audioElements)
  /\ audioElements[k].aborted > 0
  /\ Becomes(playNext([Player EXCEPT !.elements[k].aborted = @ - 1,
                                     !.elements[k].available = TRUE]))
  /\ UNCHANGED creations
  /\ PoolRest

\* the pool of a page that did not load audioPlayer.js yet
NoPool ==
  /\ audioElements = <<>>
  /\ currentAudioIndex = 0
  /\ creations = 0
  /\ allocations = <<>>

\* the pool after DOMContentLoaded called createAudioElements
InitPool ==
  /\ audioElements = createAudioElements(<<>>)
  /\ currentAudioIndex = 0
  /\ creations = 1
  /\ allocations = <<>>

(***************************************************************************)
(* CLIENT: clicks on the start button while startSession is suspended (the *)
(* click listener of the button and startSession on iOS)                   *)
(***************************************************************************)
VARIABLES
  unlocking,  \* runs of startSession awaiting ensureIOSAudioUnlocked()
  begun       \* history: runs of startSession that set isSessionActive and
              \* connected the channels since the last stop

startVars == <<unlocking, begun>>

\* click on the button on iOS while no session is active, the IMU and the
\* GPS box not ticked: the listener tests isSessionActive only and calls
\* startSession(), which awaits ensureIOSAudioUnlocked()
IOSClickStart ==
  /\ IsIOS
  /\ ~isSessionActive
  /\ ~enabledSensors.imu /\ ~enabledSensors.gps
  /\ unlocking < MaxClicks
  /\ unlocking' = unlocking + 1
  /\ UNCHANGED <<begun, clientVars>>

\* ensureIOSAudioUnlocked() resolved, 3D position not ticked: the rest of
\* startSession
AudioUnlocked ==
  /\ unlocking > 0
  /\ ~enabledSensors.pose
  /\ unlocking' = unlocking - 1
  /\ begun' = begun + 1
  /\ BeginSession
  /\ UNCHANGED <<xrSession, xrPending, toggles, deviceVars>>

\* ensureIOSAudioUnlocked() rejected: catch (e) { onSessionEnded() }
AudioUnlockFailed ==
  /\ unlocking > 0
  /\ unlocking' = unlocking - 1
  /\ begun' = IF isSessionActive THEN 0 ELSE begun
  /\ onSessionEnded
  /\ UNCHANGED <<xrPending, toggles, deviceVars, held, emitted>>

\* click on the button while the session is active
StopClicked ==
  /\ ClickStop
  /\ begun' = 0
  /\ UNCHANGED unlocking

\* no click on the start button yet
NoStart ==
  /\ unlocking = 0
  /\ begun = 0

(***************************************************************************)
(* CLIENT: the camera manager of camera.js and its callers (startCamera,   *)
(* stopCamera; startSession, the onopen and onclose of the camera socket,  *)
(* onSessionEnded)                                                         *)
(***************************************************************************)
VARIABLES
  cameraSession,  \* isSessionActive, as the callers of the manager see it
  cameraSocket,   \* readyState of cameraWs ("NONE": no socket yet)
  cameraManager,  \* cameraStarted and videoTrack (0: null) of the manager
  getUserMedia,   \* calls of startCamera awaiting getUserMedia
  tracks,         \* every video track acquired so far: "live" or "ended"
  frameLoops,     \* the tracks whose processFrames loop is reading frames
  stopLeft        \* history: the tracks the last stopCamera left live

cameraVars == <<cameraSession, cameraSocket, cameraManager, getUserMedia, tracks,
                frameLoops, stopLeft>>

LiveTracks == {k \in 1..Len(tracks) : tracks[k] = "live"}

\* startCamera(ws, isSessionActive) up to its await: it returns at once when
\* cameraStarted is set or the session is not active
startCameraCall(pending, active) ==
  IF cameraManager.cameraStarted \/ ~active THEN pending ELSE pending + 1

\* startSession with the camera box ticked: isSessionActive = true,
\* connectWebSockets() creates cameraWs, then startCamera(cameraWs, true)
StartSessionCamera ==
  /\ ~cameraSession
  /\ Len(tracks) + getUserMedia < MaxTracks
  /\ cameraSession' = TRUE
  /\ cameraSocket' = "CONNECTING"
  /\ getUserMedia' = startCameraCall(getUserMedia, TRUE)
  /\ UNCHANGED <<cameraManager, tracks, frameLoops, stopLeft>>

\* cameraWs.onopen: startCamera(cameraWs, isSessionActive) if the session is
\* active
CameraSocketOpen ==
  /\ cameraSocket = "CONNECTING"
  /\ Len(tracks) + getUserMedia < MaxTracks
  /\ cameraSocket' = "OPEN"
  /\ getUserMedia' = IF cameraSession
                     THEN startCameraCall(getUserMedia, cameraSession)
                     ELSE getUserMedia
  /\ UNCHANGED <<cameraSession, cameraManager, tracks, frameLoops, stopLeft>>

\* cameraWs.onclose and, the session being active, its timer:
\* connectCameraWebSocket
CameraSocketReconnect ==
  /\ cameraSocket \in {"CONNECTING", "OPEN", "CLOSING"}
  /\ cameraSocket' = IF cameraSession THEN "CONNECTING" ELSE "CLOSED"
  /\ UNCHANGED <<cameraSession, cameraManager, getUserMedia, tracks, frameLoops,
                 stopLeft>>

\* getUserMedia resolved: the rest of startCamera keeps the track in
\* videoTrack, starts processFrames on it and sets cameraStarted
GetUserMediaResolved ==
  /\ getUserMedia > 0
  /\ getUserMedia' = getUserMedia - 1
  /\ tracks' = Append(tracks, "live")
  /\ cameraManager' = [cameraStarted |-> TRUE, videoTrack |-> Len(tracks) + 1]
  /\ frameLoops' = frameLoops \cup {Len(tracks) + 1}
  /\ UNCHANGED <<cameraSession, cameraSocket, stopLeft>>

\* getUserMedia rejected: the catch logs and alerts
GetUserMediaRejected ==
  /\ getUserMedia > 0
  /\ getUserMedia' = getUserMedia - 1
  /\ UNCHANGED <<cameraSession, cameraSocket, cameraManager, tracks, frameLoops,
                 stopLeft>>

\* stopCamera: videoTrack.stop() if videoTrack is set; the loop that reads
\* the stopped track ends
stopCamera(manager) ==
  [manager |-> [cameraStarted |-> FALSE, videoTrack |-> 0],
   tracks |-> [k \in 1..Len(tracks) |->
                 IF k = manager.videoTrack THEN "ended" ELSE tracks[k]],
   loops |-> frameLoops \ {manager.videoTrack}]

\* onSessionEnded: isSessionActive = false, cameraWs.close(), stopCamera()
StopSessionCamera ==
  /\ cameraSession
  /\ cameraSession' = FALSE
  /\ cameraSocket' = IF cameraSocket \in {"CONNECTING", "OPEN"} THEN "CLOSING"
                     ELSE cameraSocket
  /\ LET stopped == stopCamera(cameraManager) IN
     /\ cameraManager' = stopped.manager
     /\ tracks' = stopped.tracks
     /\ frameLoops' = stopped.loops
     /\ stopLeft' = {k \in 1..Len(tracks) : stopped.tracks[k] = "live"}
  /\ UNCHANGED getUserMedia

\* the manager of a page that has not started a session
NoCamera ==
  /\ cameraSession = FALSE
  /\ cameraSocket = "NONE"
  /\ cameraManager = [cameraStarted |-> FALSE, videoTrack |-> 0]
  /\ getUserMedia = 0
  /\ tracks = <<>>
  /\ frameLoops = {}
  /\ stopLeft = {}

(***************************************************************************)
(* CLIENT: speech synthesis of textToSpeech.js (isRecentlySpoken, speak,   *)
(* fallbackSpeak)                                                          *)
(***************************************************************************)
VARIABLES
  now,                 \* Date.now(), in steps of Quantum milliseconds
  lastSpokenMessages,  \* text -> time it was last noted (0: not in the map)
  utterances,          \* what synth.speak was given, in order
  fallbacks            \* history: the calls of fallbackSpeak

ttsVars == <<now, lastSpokenMessages, utterances, fallbacks>>

\* milliseconds: the debounce time of isRecentlySpoken, the age at which it
\* forgets a message, the delay of the iOS check of speak; the clock steps
\* by the shortest of them
DebounceTime == 2000
CleanupAge == 10000
IosCheckDelay == 250
Quantum == IosCheckDelay

Spoken == {"hello", "turn left"}

\* isRecentlySpoken(text) at time t: whether the text was noted less than
\* the debounce time ago; if not, it is noted now and old entries are dropped
isRecentlySpoken(messages, text, t) ==
  IF messages[text] # 0 /\ (t - messages[text]) * Quantum < DebounceTime
  THEN [recent |-> TRUE, messages |-> messages]
  ELSE [recent |-> FALSE,
        messages |-> [m \in Spoken |->
                        IF m = text THEN t
                        ELSE IF messages[m] # 0
                                /\ (t - messages[m]) * Quantum > CleanupAge
                             THEN 0 ELSE messages[m]]]

\* synth.cancel(): what is queued or being spoken is dropped by the
\* synthesizer; its 'end' or 'error' event is still to come
cancel(queue) == [i \in 1..Len(queue) |-> [queue[i] EXCEPT !.cancelled = TRUE]]

\* synth.speaking
speaking == \E i \in 1..Len(utterances) :
              utterances[i].state = "queued" /\ ~utterances[i].cancelled

\* new SpeechSynthesisUtterance(text) as synth.speak receives it
Utterance(text, isFallback, check) ==
  [text |-> text, isFallback |-> isFallback, startTime |-> now, state |-> "queued",
   cancelled |-> FALSE, check |-> check]

\* the synthesizer's state as one value
Tts == [messages |-> lastSpokenMessages, queue |-> utterances, calls |-> fallbacks]
TtsBecomes(s) ==
  /\ lastSpokenMessages' = s.messages
  /\ utterances' = s.queue
  /\ fallbacks' = s.calls

\* fallbackSpeak(text), called for utterance from (0: speak threw)
fallbackSpeak(s, text, cause, from) ==
  LET r == isRecentlySpoken(s.messages, text, now)
      call == [text |-> text, at |-> now, cause |-> cause, from |-> from,
               submitted |-> ~r.recent]
  IN IF r.recent THEN [s EXCEPT !.calls = Append(@, call)]
     ELSE [messages |-> r.messages,
           queue |-> Append(cancel(s.queue), Utterance(text, TRUE, FALSE)),
           calls |-> Append(s.calls, call)]

\* speak(text) in tts mode, the synthesizer ready and, on iOS, unlocked; text
\* is no system message. throws: synth.speak raises an exception
Speak(text, throws) ==
  /\ audioMode = "tts"
  /\ Len(utterances) + 1 < MaxUtterances
  /\ LET r == isRecentlySpoken(lastSpokenMessages, text, now)
         cancelled == [Tts EXCEPT !.messages = r.messages, !.queue = cancel(@)]
     IN IF r.recent THEN TtsBecomes(Tts)
        ELSE IF throws THEN TtsBecomes(fallbackSpeak(cancelled, text, "throw", 0))
        ELSE TtsBecomes([cancelled EXCEPT !.queue =
                           Append(@, Utterance(text, FALSE, IsIOS))])
  /\ UNCHANGED now

\* utterance.onerror of the i-th utterance; a fallback has no handler
UtteranceError(i) ==
  /\ i \in 1..Len(utterances)
  /\ utterances[i].state = "queued"
  /\ Len(utterances) < MaxUtterances
  /\ LET failed == [Tts EXCEPT !.queue[i].state = "error"]
     IN IF utterances[i].isFallback THEN TtsBecomes(failed)
        ELSE TtsBecomes(fallbackSpeak(failed, utterances[i].text, "error", i))
  /\ UNCHANGED now

\* utterance.onend of the i-th utterance
UtteranceEnd(i) ==
  /\ i \in 1..Len(utterances)
  /\ utterances[i].state = "queued"
  /\ TtsBecomes([Tts EXCEPT !.queue[i].state = "ended"])
  /\ UNCHANGED now

\* the iOS check of the i-th utterance is due
CheckDue(i) ==
  /\ utterances[i].check
  /\ (now - utterances[i].startTime) * Quantum >= IosCheckDelay

\* the timer speak sets on iOS: isSpeechDetected is set nowhere
IosCheck(i) ==
  /\ i \in 1..Len(utterances)
  /\ CheckDue(i)
  /\ Len(utterances) < MaxUtterances
  /\ LET checked == [Tts EXCEPT !.queue[i].check = FALSE]
         isSpeechDetected == FALSE
     IN IF \/ ~speaking
           \/ /\ (now - utterances[i].startTime) * Quantum > IosCheckDelay
              /\ ~isSpeechDetected
        THEN TtsBecomes(fallbackSpeak(checked, utterances[i].text, "timer", i))
        ELSE TtsBecomes(checked)
  /\ UNCHANGED now

\* time passes, up to the next timer that is due
TtsTick ==
  /\ now < MaxTime
  /\ \A i \in 1..Len(utterances) : ~CheckDue(i)
  /\ now' = now + 1
  /\ UNCHANGED <<lastSpokenMessages, utterances, fallbacks>>

\* nothing was spoken yet
NoTts ==
  /\ now = 1
  /\ lastSpokenMessages = [m \in Spoken |-> 0]
  /\ utterances = <<>>
  /\ fallbacks = <<>>

(***************************************************************************)
(* Specifications                                                          *)
(***************************************************************************)
vars == <<serverVars, sendVars, clientVars, gestureVars, procVars, producerVars, playbackVars, speechVars, poolVars, startVars, cameraVars, ttsVars>>

\* a step of one part of the system leaves the other parts alone
OnlyServer == UNCHANGED <<sendVars, clientVars, gestureVars, procVars, producerVars, playbackVars, speechVars, poolVars, startVars, cameraVars, ttsVars>>
OnlySend == UNCHANGED <<serverVars, clientVars, gestureVars, procVars, producerVars, playbackVars, speechVars, poolVars, startVars, cameraVars, ttsVars>>
OnlyClient == UNCHANGED <<serverVars, sendVars, gestureVars, procVars, producerVars, playbackVars, speechVars, poolVars, startVars, cameraVars, ttsVars>>
OnlyGesture == UNCHANGED <<serverVars, sendVars, procVars, producerVars, playbackVars, speechVars, poolVars, startVars, cameraVars, ttsVars>>
OnlyProcess == UNCHANGED <<sendVars, clientVars, gestureVars, producerVars, playbackVars, speechVars, poolVars, startVars, cameraVars, ttsVars>>
OnlyProducer == UNCHANGED <<serverVars, sendVars, clientVars, gestureVars, procVars, playbackVars, speechVars, poolVars, startVars, cameraVars, ttsVars>>
OnlyPlayback == UNCHANGED <<serverVars, sendVars, gestureVars, procVars, producerVars, speechVars, poolVars, startVars, cameraVars, ttsVars>>
OnlySpeech == UNCHANGED <<serverVars, clientVars, gestureVars, procVars, producerVars, playbackVars, poolVars, startVars, cameraVars, ttsVars>>

\* nobody has clicked yet, in a browser that asks for no permission
NoClick ==
  /\ InitClick
  /\ hostApi = [motion |-> FALSE, orientation |-> FALSE, geolocation |-> TRUE,
                secure |-> TRUE]

Init == InitServer /\ InitSend /\ InitClient /\ NoClick /\ AppStarted /\ NoProducer /\ NoAudio /\ NoSpeech /\ NoTts /\ NoCamera /\ NoStart /\ NoPool

\* the server and the adapters on their own: the page stays as it loaded,
\* with no box ticked
IdlePage ==
  /\ InitPage(0)
  /\ platform = "desktop"
  /\ audioMode = "tts"
  /\ ~enabledSensors.imu

InitAlone == InitServer /\ InitSend /\ IdlePage /\ NoClick /\ AppStarted /\ NoProducer /\ NoAudio /\ NoSpeech /\ NoTts /\ NoCamera /\ NoStart /\ NoPool

\* the fan-out router: consumer and producer sockets, bus messages
NextServer ==
  \/ \E url \in FanoutUrls : Upgrade(url) /\ OnlyServer
  \/ \E p \in PeerIds : PeerClosing(p) /\ OnlyServer
  \/ \E p \in PeerIds : PeerClosed(p) /\ OnlyServer
  \/ \E d \in TtsTexts : TTSCallback(d) /\ OnlyServer
  \/ \E d \in WavPayloads : TtsWavCallback(d) /\ OnlyServer
  \/ \E d \in WavPayloads : WavBytesCallback(d) /\ OnlyServer

SpecServer == InitAlone /\ [][NextServer]_vars

\* the upgrade dispatcher alone, over every request path
NextUpgrade ==
  \/ \E url \in RequestUrls : Upgrade(url) /\ OnlyServer
  \/ \E p \in PeerIds : PeerClosed(p) /\ OnlyServer

SpecUpgrade == InitAlone /\ [][NextUpgrade]_vars

\* the send path of the capture adapters
NextSend ==
  \/ \E a \in Adapters : \E st \in {"CONNECTING", "OPEN"} : AdapterStart(a, st) /\ OnlySend
  \/ \E a \in Adapters : AdapterStop(a) /\ OnlySend
  \/ \E a \in Adapters : SocketAdvance(a) /\ OnlySend
  \/ SendSensorData /\ OnlySend
  \/ HandlePositionUpdate /\ OnlySend
  \/ OnXRFrame /\ OnlySend
  \/ CameraFrameRead /\ OnlySend
  \/ CameraFrameEncoded /\ OnlySend
  \/ IOSCaptureInterval /\ OnlySend
  \/ SpeechResult /\ OnlySend
  \/ TranscriptionTimer /\ OnlySend

SpecSend == InitAlone /\ [][NextSend]_vars

\* the browser page: session, sockets, reconnect timers, audio output
NextClient ==
  \/ ClickStart /\ OnlyClient
  \/ ClickStop /\ OnlyClient
  \/ CameraSelect /\ OnlyClient
  \/ PoseSelect /\ OnlyClient
  \/ MicrophoneSelect /\ OnlyClient
  \/ \E checked \in BOOLEAN : ImuSelect(checked) /\ OnlyClient
  \/ GpsSelect /\ OnlyClient
  \/ AudioSelect /\ OnlyClient
  \/ XRGranted /\ OnlyClient
  \/ XRDenied /\ OnlyClient
  \/ XREnd /\ OnlyClient
  \/ \E id \in SocketIds : SockOpen(id) /\ OnlyClient
  \/ \E id \in SocketIds : SockClose(id) /\ OnlyClient
  \/ \E id \in SocketIds : ReconnectTimer(id) /\ OnlyClient
  \/ \E i \in 1..Len(fetching) : ConfigFetched(i) /\ OnlyClient
  \/ \E granted \in BOOLEAN : CameraAcquired(granted) /\ OnlyClient
  \/ \E id \in SocketIds : \E binary \in BOOLEAN : WavMessage(id, binary) /\ OnlyClient
  \/ PlaybackEnded /\ OnlyClient

SpecClient == Init /\ [][NextClient]_vars

\* the same with the event loop running every timer that is due
SpecClientFair ==
  /\ SpecClient
  /\ \A id \in 1..MaxSockets : WF_vars(ReconnectTimer(id) /\ OnlyClient)

\* a page whose checkboxes are left alone once it has loaded, with as many
\* boxes ticked as a start can open sockets for
InitLoaded == InitServer /\ InitSend /\ InitSession /\ NoClick /\ AppStarted /\ NoProducer /\ NoAudio /\ NoSpeech /\ NoTts /\ NoCamera /\ NoStart /\ NoPool

NextSession ==
  \/ ClickStart /\ OnlyClient
  \/ ClickStop /\ OnlyClient
  \/ XRGranted /\ OnlyClient
  \/ XRDenied /\ OnlyClient
  \/ XREnd /\ OnlyClient
  \/ \E id \in SocketIds : SockOpen(id) /\ OnlyClient
  \/ \E id \in SocketIds : SockClose(id) /\ OnlyClient
  \/ \E id \in SocketIds : ReconnectTimer(id) /\ OnlyClient
  \/ \E i \in 1..Len(fetching) : ConfigFetched(i) /\ OnlyClient
  \/ \E granted \in BOOLEAN : CameraAcquired(granted) /\ OnlyClient
  \/ \E id \in SocketIds : \E binary \in BOOLEAN : WavMessage(id, binary) /\ OnlyClient
  \/ PlaybackEnded /\ OnlyClient

SpecSession == InitLoaded /\ [][NextSession]_vars

\* sessions with the samples of the capture adapters
NextCapture ==
  \/ ClickStart /\ OnlyClient
  \/ ClickStop /\ OnlyClient
  \/ XRGranted /\ OnlyClient
  \/ XRDenied /\ OnlyClient
  \/ XREnd /\ OnlyClient
  \/ \E id \in SocketIds : SockOpen(id) /\ OnlyClient
  \/ \E id \in SocketIds : SockClose(id) /\ OnlyClient
  \/ \E id \in SocketIds : ReconnectTimer(id) /\ OnlyClient
  \/ \E granted \in BOOLEAN : CameraAcquired(granted) /\ OnlyClient
  \/ PageSendSensorData /\ OnlyClient
  \/ PageSendGPSData /\ OnlyClient
  \/ PageOnXRFrame /\ OnlyClient
  \/ PageTranscriptionTimer /\ OnlyClient
  \/ PageCameraFrameRead /\ OnlyClient
  \/ PageCameraFrameEncoded /\ OnlyClient

SpecCapture == Init /\ [][NextCapture]_vars

\* sessions in which a step of the teardown may throw
NextTeardown ==
  \/ ClickStart /\ OnlyClient
  \/ ClickStop /\ OnlyClient
  \/ \E t \in Throwers : StopThrows(t) /\ OnlyClient
  \/ \E id \in SocketIds : SockOpen(id) /\ OnlyClient
  \/ \E id \in SocketIds : SockClose(id) /\ OnlyClient
  \/ \E id \in SocketIds : ReconnectTimer(id) /\ OnlyClient
  \/ \E i \in 1..Len(fetching) : ConfigFetched(i) /\ OnlyClient
  \/ \E granted \in BOOLEAN : CameraAcquired(granted) /\ OnlyClient
  \/ \E id \in SocketIds : \E binary \in BOOLEAN : WavMessage(id, binary) /\ OnlyClient
  \/ PlaybackEnded /\ OnlyClient

SpecTeardown == Init /\ [][NextTeardown]_vars

\* the click listener of the button on an iPhone or iPad, up to startSession()
InitGesture ==
  /\ InitServer /\ InitSend /\ AppStarted
  /\ platform = "ios"
  /\ PageLoaded(MaxSockets)
  /\ InitClick
  /\ NoProducer /\ NoAudio /\ NoSpeech /\ NoTts /\ NoCamera /\ NoStart /\ NoPool

NextGesture ==
  \/ GestureClick /\ OnlyGesture
  \/ \E answer \in Answers : MotionAnswered(answer) /\ OnlyGesture
  \/ \E answer \in Answers : OrientationAnswered(answer) /\ OnlyGesture
  \/ ImuReturned /\ OnlyGesture
  \/ \E granted \in BOOLEAN : GeolocationAnswered(granted) /\ OnlyGesture
  \/ GpsReturned /\ OnlyGesture

SpecGesture == InitGesture /\ [][NextGesture]_vars

\* the server process from its start to its exit, with consumers connecting
InitShutdown == InitServer /\ InitSend /\ IdlePage /\ NoClick /\ InitProcess /\ NoProducer /\ NoAudio /\ NoSpeech /\ NoTts /\ NoCamera /\ NoStart /\ NoPool

NextShutdown ==
  \/ StartAppOk /\ OnlyProcess
  \/ \E throws \in BOOLEAN : StartAppFails(throws) /\ OnlyProcess
  \/ \E trigger \in Triggers : \E throws \in BOOLEAN :
       Signal(trigger, throws) /\ OnlyProcess
  \/ \E url \in FanoutUrls : Serving /\ Upgrade(url) /\ OnlyServer
  \/ \E p \in PeerIds : Running /\ PeerClosed(p) /\ OnlyServer
  \/ HttpsClosed /\ OnlyProcess
  \/ Tick /\ OnlyProcess
  \/ \E i \in 1..MaxInvocations : TimerFires(i) /\ OnlyProcess

SpecShutdown == InitShutdown /\ [][NextShutdown]_vars

\* the same with the event loop of Node: time passes and every timer that is
\* due runs
SpecShutdownFair ==
  /\ SpecShutdown
  /\ WF_vars(Tick /\ OnlyProcess)
  /\ \A i \in 1..MaxInvocations : WF_vars(TimerFires(i) /\ OnlyProcess)

\* one producer connection of the server: its messages and its close
InitProducers ==
  InitServer /\ InitSend /\ IdlePage /\ NoClick /\ AppStarted /\ InitProducer /\ NoAudio /\ NoSpeech /\ NoTts /\ NoCamera /\ NoStart /\ NoPool

NextProducers ==
  \/ \E m \in Frames(prodChan) : Receive(m) /\ OnlyProducer
  \/ ProducerClosed /\ OnlyProducer

SpecProducers == InitProducers /\ [][NextProducers]_vars

\* the audio player of a running session
InitPlayback ==
  /\ InitServer /\ InitSend /\ NoClick /\ AppStarted /\ NoProducer
  /\ ListeningPlayer /\ NoAudio /\ NoSpeech /\ NoTts /\ NoCamera /\ NoStart /\ NoPool

NextPlayback ==
  \/ \E audioData \in AudioBuffers : AudioReceived(audioData) /\ OnlyPlayback
  \/ \E n \in 1..MaxBuffers : StartResolved(n) /\ OnlyPlayback
  \/ \E n \in 1..MaxBuffers : StartRejected(n) /\ OnlyPlayback
  \/ \E n \in 1..MaxBuffers : SourceEnded(n) /\ OnlyPlayback

SpecPlayback == InitPlayback /\ [][NextPlayback]_vars

\* the speech adapter of a running session
InitWakeWord ==
  /\ InitServer /\ IdlePage /\ NoClick /\ AppStarted /\ NoProducer /\ NoAudio
  /\ InitListening /\ NoPool /\ NoStart /\ NoCamera /\ NoTts

NextWakeWord ==
  \/ \E ok \in BOOLEAN : \E word \in WakeWords : ConfigLoaded(ok, word) /\ OnlySpeech
  \/ \E transcript \in Finals : OnResult(transcript) /\ OnlySpeech
  \/ SpeechSecond /\ OnlySpeech
  \/ PromptTimer /\ OnlySpeech
  \/ SocketAdvance("speech") /\ OnlySend

SpecWakeWord == InitWakeWord /\ [][NextWakeWord]_vars

\* the pool of audio elements of a running session on Android
OnlyPool == UNCHANGED <<serverVars, sendVars, gestureVars, procVars, producerVars, speechVars, startVars, cameraVars, ttsVars>>

InitAudioPool ==
  /\ InitServer /\ InitSend /\ NoClick /\ AppStarted /\ NoProducer
  /\ ListeningPlayer /\ platform = "android" /\ NoAudio /\ NoSpeech /\ NoTts /\ NoCamera /\ NoStart
  /\ InitPool

NextAudioPool ==
  \/ CreateAgain /\ OnlyPool
  \/ PoolAudioReceived /\ OnlyPool
  \/ \E k \in 1..MAX_AUDIO_ELEMENTS : PlayResolved(k) /\ OnlyPool
  \/ \E k \in 1..MAX_AUDIO_ELEMENTS : PlayFailed(k) /\ OnlyPool
  \/ \E k \in 1..MAX_AUDIO_ELEMENTS : PlayEnded(k) /\ OnlyPool
  \/ \E k \in 1..MAX_AUDIO_ELEMENTS : AbortCaught(k) /\ OnlyPool

SpecAudioPool == InitAudioPool /\ [][NextAudioPool]_vars

\* the stamps of the camera, IMU and GPS handlers: good samples that differ
\* in their timestamp only
Timestamps == {Missing, N(0), N(999), N(1000), N(1500), N(2001)}
StampedData(chan) ==
  CASE chan = "camera" ->
         { [camera |-> Text(<<Colon, Comma, 63, 48>>), width |-> Missing,
            height |-> Missing, timestamp |-> t] : t \in Timestamps }
    [] chan = "imu" ->
         { [imu |-> [t |-> "obj", accelerometer |-> Vec3("obj", N(1), N(2), N(3)),
                     gyroscope |-> [t |-> "obj", alpha |-> N(4), beta |-> N(5),
                                    gamma |-> N(6)],
                     magnetometer |-> [t |-> "obj", z |-> N(90)],
                     timestamp |-> t]] : t \in Timestamps }
    [] chan = "gps" ->
         { [gps |-> [t |-> "obj", latitude |-> N(48), longitude |-> N(2),
                     altitude |-> N(100), accuracy |-> N(5),
                     timestamp |-> t]] : t \in Timestamps }
StampedFrames(chan) == {[parse |-> TRUE, data |-> d] : d \in StampedData(chan)}

InitStamps ==
  /\ InitServer /\ InitSend /\ IdlePage /\ NoClick /\ AppStarted /\ InitProducer
  /\ prodChan \in {"camera", "imu", "gps"}
  /\ NoAudio /\ NoSpeech /\ NoTts /\ NoCamera /\ NoStart /\ NoPool

NextStamps ==
  \/ \E m \in StampedFrames(prodChan) : Receive(m) /\ OnlyProducer
  \/ ProducerClosed /\ OnlyProducer

SpecStamps == InitStamps /\ [][NextStamps]_vars

\* the start button on iOS, with a box ticked whose sensor asks no permission
OnlyStart == UNCHANGED <<serverVars, sendVars, gestureVars, procVars, producerVars, playbackVars, speechVars, poolVars, cameraVars, ttsVars>>

InitStart ==
  /\ InitServer /\ InitSend /\ NoClick /\ AppStarted /\ NoProducer
  /\ platform = "ios"
  /\ PageLoaded(MaxEnabled)
  /\ ~enabledSensors.imu /\ ~enabledSensors.gps
  /\ ~enabledSensors.pose /\ ~enabledSensors.audio
  /\ NoAudio /\ NoSpeech /\ NoTts /\ NoCamera /\ NoPool
  /\ NoStart

NextStart ==
  \/ IOSClickStart /\ OnlyStart
  \/ AudioUnlocked /\ OnlyStart
  \/ AudioUnlockFailed /\ OnlyStart
  \/ StopClicked /\ OnlyStart
  \/ \E id \in SocketIds : SockOpen(id) /\ OnlyClient
  \/ \E id \in SocketIds : SockClose(id) /\ OnlyClient
  \/ \E id \in SocketIds : ReconnectTimer(id) /\ OnlyClient
  \/ \E granted \in BOOLEAN : CameraAcquired(granted) /\ OnlyClient

SpecStart == InitStart /\ [][NextStart]_vars

\* the camera manager and its callers, the camera box ticked
OnlyCamera == UNCHANGED <<serverVars, sendVars, clientVars, gestureVars, procVars, producerVars, playbackVars, speechVars, poolVars, startVars, ttsVars>>

InitCamera == InitServer /\ InitSend /\ IdlePage /\ NoClick /\ AppStarted /\ NoProducer /\ NoAudio /\ NoSpeech /\ NoTts /\ NoPool /\ NoStart /\ NoCamera

NextCamera ==
  \/ StartSessionCamera /\ OnlyCamera
  \/ CameraSocketOpen /\ OnlyCamera
  \/ CameraSocketReconnect /\ OnlyCamera
  \/ GetUserMediaResolved /\ OnlyCamera
  \/ GetUserMediaRejected /\ OnlyCamera
  \/ StopSessionCamera /\ OnlyCamera

SpecCamera == InitCamera /\ [][NextCamera]_vars

\* the synthesizer of a page in tts mode
OnlyTts == UNCHANGED <<serverVars, sendVars, clientVars, gestureVars, procVars, producerVars, playbackVars, speechVars, poolVars, startVars, cameraVars>>

InitTts ==
  /\ InitServer /\ InitSend /\ NoClick /\ AppStarted /\ NoProducer
  /\ platform \in Mobile /\ PageLoaded(0) /\ audioMode = "tts"
  /\ NoAudio /\ NoSpeech /\ NoPool /\ NoStart /\ NoCamera
  /\ NoTts

NextTts ==
  \/ \E text \in Spoken : \E throws \in BOOLEAN : Speak(text, throws) /\ OnlyTts
  \/ \E i \in 1..MaxUtterances : UtteranceError(i) /\ OnlyTts
  \/ \E i \in 1..MaxUtterances : UtteranceEnd(i) /\ OnlyTts
  \/ \E i \in 1..MaxUtterances : IosCheck(i) /\ OnlyTts
  \/ TtsTick /\ OnlyTts

SpecTts == InitTts /\ [][NextTts]_vars

(***************************************************************************)
(* Properties of the fan-out router and of the upgrade dispatcher          *)
(***************************************************************************)
\* frames of a bus message in the frames sent to a socket
FramesOf(p, seq) == SelectSeq(outbox[p], LAMBDA f : f.seq = seq)

\* C4: when a message arrives on a bus->consumer topic, send() is called
\* exactly once, with the message payload, on every socket of the channel that
\* is OPEN at that moment, on no socket in another state and on no socket of
\* another channel, and the callback raises no error.
C4_FanoutToOpenPeersOnly ==
  lastFanout.seq > 0 =>
    /\ \A p \in lastFanout.open :
         /\ Cardinality({i \in 1..Len(lastFanout.calls) : lastFanout.calls[i] = p}) = 1
         /\ Len(FramesOf(p, lastFanout.seq)) = 1
         /\ FramesOf(p, lastFanout.seq)[1].data = lastFanout.data
    /\ \A i \in 1..Len(lastFanout.calls) : lastFanout.calls[i] \in lastFanout.open
    /\ \A p \in PeerIds \ lastFanout.open : FramesOf(p, lastFanout.seq) = <<>>
    /\ ~lastFanout.threw

\* a fan-out that found an OPEN socket and one that was closing or closed
C4_Witness ==
  /\ lastFanout.seq > 0
  /\ lastFanout.open # {}
  /\ lastFanout.others # {}

\* C5: a socket never holds a frame of a bus message that arrived before the
\* socket connected.
C5_NothingQueuedForLatePeers ==
  \A p \in PeerIds : \A i \in 1..Len(outbox[p]) :
    outbox[p][i].seq > 0 => outbox[p][i].seq > peerJoined[p]

\* a consumer socket that connected after a message had been fanned out to
\* another socket of the same channel
C5_Witness ==
  \E p, q \in PeerIds :
    /\ p # q
    /\ peerState[p] = "OPEN"
    /\ peerPath[p] = peerPath[q]
    /\ peerPath[p] \in {"/tts", "/wav_audio"}
    /\ peerJoined[p] > 0
    /\ \E i \in 1..Len(outbox[q]) :
         outbox[q][i].seq > 0 /\ outbox[q][i].seq <= peerJoined[p]

WavTopics == {"mobile_sensor/tts_wav", "mobile_sensor/wav_bytes"}

\* C6: every message on mobile_sensor/tts_wav or mobile_sensor/wav_bytes
\* appends one frame carrying the published bytes to every OPEN wav_audio
\* socket, and changes nothing else (so the same payload on both topics is two
\* frames for each open socket).
C6_WavForwardedUnchanged ==
  [][(Len(busLog') = Len(busLog) + 1 /\ busLog'[Len(busLog')].topic \in WavTopics)
       => /\ \A p \in PeerIds :
               outbox'[p] = IF p \in OpenPeers("/wav_audio")
                            THEN Append(outbox[p],
                                        [kind |-> "binary",
                                         data |-> busLog'[Len(busLog')].data,
                                         seq |-> Len(busLog')])
                            ELSE outbox[p]
          /\ UNCHANGED <<clients, ttsClients, peerState, peerPath, peerJoined,
                         lastUpgrade>>]_vars

\* the same payload arrived on both topics and an open socket holds it twice
C6_Witness ==
  \E p \in PeerIds : \E i, j \in 1..Len(outbox[p]) :
    /\ i < j
    /\ outbox[p][i].seq > 0 /\ outbox[p][j].seq > 0
    /\ outbox[p][i].data = outbox[p][j].data
    /\ busLog[outbox[p][i].seq].topic \in WavTopics
    /\ busLog[outbox[p][j].seq].topic \in WavTopics
    /\ busLog[outbox[p][i].seq].topic # busLog[outbox[p][j].seq].topic

\* C7: a bus message that finds no OPEN socket on its channel calls send() on
\* nothing, raises nothing and counts 0 clients; and whatever the count, every
\* socket that was OPEN holds the frame.
C7_ZeroPeersIsNoop ==
  lastFanout.seq > 0 =>
    /\ lastFanout.open = {} =>
         /\ lastFanout.calls = <<>>
         /\ lastFanout.count = 0
         /\ ~lastFanout.threw
         /\ \A p \in PeerIds : FramesOf(p, lastFanout.seq) = <<>>
    /\ \A p \in lastFanout.open : FramesOf(p, lastFanout.seq) # <<>>

\* a TTS message and a WAV message that found no OPEN socket, one of them
\* with a closing socket still in the server's client set
C7_Witness ==
  /\ lastFanout.seq > 1
  /\ lastFanout.open = {}
  /\ lastFanout.others # {}
  /\ busLog[1].topic # lastFanout.topic
  /\ \A p \in PeerIds : FramesOf(p, 1) = <<>>

\* the channel table of the interface: path -> key of the server
ChannelOfPath(path) ==
  CASE path = "/pose" -> "pose"
    [] path = "/camera" -> "camera"
    [] path = "/imu" -> "imu"
    [] path = "/gps" -> "gps"
    [] path = "/microphone" -> "microphone"
    [] path = "/tts" -> "tts"
    [] path = "/wav_audio" -> "wavAudio"
    [] OTHER -> "none"

\* C9: a socket exists only for a request on one of the seven paths and is a
\* client of exactly that path's server while it is open or closing; a
\* request on any other path is destroyed and creates no socket.
C9_UpgradeDispatch ==
  /\ \A p \in PeerIds : peerState[p] # "NONE" =>
       /\ peerPath[p] \in RoutedPaths
       /\ \A k \in ServerKeys :
            p \in clients[k] <=> (k = ChannelOfPath(peerPath[p])
                                   /\ peerState[p] \in {"OPEN", "CLOSING"})
  /\ lastUpgrade # NoUpgrade =>
       IF lastUpgrade.url.pathname \in RoutedPaths
       THEN /\ ~lastUpgrade.destroyed
            /\ lastUpgrade.peer \in PeerIds
            /\ peerPath[lastUpgrade.peer] = lastUpgrade.url.pathname
       ELSE lastUpgrade.destroyed /\ lastUpgrade.peer = 0

\* sockets on two different channels, one of them requested with a query
\* string, and then a request on an unrouted path that was destroyed
C9_Witness ==
  /\ lastUpgrade.destroyed
  /\ \E p, q \in PeerIds :
       /\ peerState[p] = "OPEN" /\ peerState[q] = "OPEN"
       /\ peerPath[p] = "/wav_audio" /\ peerPath[q] = "/microphone"

(***************************************************************************)
(* Properties of the capture adapters                                      *)
(***************************************************************************)
\* C8: a sample that is ready while the adapter's socket is not OPEN is never
\* on the wire, is not held by the adapter afterwards, and no error escapes
\* the adapter's callback.
C8_NotOpenIsSilentDrop ==
  /\ dropped \cap wire = {}
  /\ cameraEncoding \notin dropped
  /\ \A i \in 1..Len(finalTranscripts) : finalTranscripts[i] \notin dropped
  /\ ~adRaised

\* a sample was dropped on a socket that was still connecting and a later
\* sample went out once the socket had opened
C8_Witness ==
  /\ dropped # {}
  /\ \E w \in wire : \E d \in dropped : d < w

(***************************************************************************)
(* Properties of the browser client                                        *)
(***************************************************************************)
\* the step opened one more socket, on channel ch, and the channel's variable
\* refers to it
OpensOn(ch) ==
  /\ Len(sockets') = Len(sockets) + 1
  /\ sockets'[Len(sockets')].chan = ch
  /\ sockets'[Len(sockets')].readyState = "CONNECTING"
  /\ ws'[ch] = Len(sockets')

\* C1: while the session is active and a producer sensor stays enabled, every
\* close of that sensor's socket is followed by a new connection on the same
\* channel, whatever the number of reconnects that came before: the close is
\* awaited until the session stops, the sensor is disabled or the reconnect is
\* made, and what ends the wait with the session active and the sensor
\* enabled is a new socket on the channel.
C1_ReconnectsWhileActiveAndEnabled ==
  /\ \A id \in 1..MaxSockets :
       (id <= Len(sockets) /\ sockets[id].awaited)
         ~> (id <= Len(sockets) /\ ~sockets[id].awaited)
  /\ [][\A id \in SocketIds :
          (/\ sockets[id].awaited
           /\ ~sockets'[id].awaited
           /\ isSessionActive'
           /\ enabledSensors'[sockets[id].chan]) => OpensOn(sockets[id].chan)]_vars

\* a socket that a reconnect had opened closed in its turn, and its own
\* reconnect is awaited
C1_Witness ==
  \E id \in SocketIds :
    /\ sockets[id].chan \in Producers
    /\ sockets[id].retry >= 1
    /\ sockets[id].awaited
    /\ \E first \in SocketIds :
         /\ first < id
         /\ sockets[first].chan = sockets[id].chan
         /\ sockets[first].expiry = "connect"

\* C2: a close of a producer socket sets one reconnect timer if the session
\* is active and none otherwise, and opens nothing itself; the expiry of the
\* timer opens one connection on the channel if the sensor is enabled and the
\* session active at that moment and nothing otherwise; a socket closes once.
C2_OneReconnectPerClose ==
  [][\A id \in SocketIds :
       LET ch == sockets[id].chan IN
       ch \in Producers =>
         /\ (sockets[id].readyState # "CLOSED" /\ sockets'[id].readyState = "CLOSED")
              => /\ sockets[id].timers = 0
                 /\ sockets'[id].timers = IF isSessionActive THEN 1 ELSE 0
                 /\ Len(sockets') = Len(sockets)
         /\ sockets[id].readyState = "CLOSED"
              => /\ sockets'[id].readyState = "CLOSED"
                 /\ sockets'[id].timers <= sockets[id].timers
         /\ (sockets[id].timers > 0 /\ sockets'[id].timers = 0)
              => IF enabledSensors[ch] /\ isSessionActive
                 THEN OpensOn(ch)
                 ELSE /\ Len(sockets') = Len(sockets)
                      /\ ws' = ws]_vars

\* a timer expired in an active session with the sensor's box unticked and
\* no connection came of it
C2_Witness ==
  \E id \in SocketIds :
    /\ sockets[id].chan \in Producers
    /\ sockets[id].expiry = "skip"
    /\ isSessionActive
    /\ ~enabledSensors[sockets[id].chan]
    /\ Len(sockets) = id

\* C3: a reconnect timer that was pending when the session stopped or the
\* channel was disabled never opens a connection afterwards, neither at its
\* expiry nor at the end of the configuration fetch its expiry started.
C3_StopOrDisableCancelsReconnect ==
  [][/\ \A id \in SocketIds :
          (sockets[id].cancelled /\ sockets[id].timers > 0 /\ sockets'[id].timers = 0)
            => Len(sockets') = Len(sockets)
     /\ \A i \in 1..Len(fetching) :
          (fetching[i].cancelled /\ fetching' = Without(fetching, i))
            => Len(sockets') = Len(sockets)]_vars

\* C10: a stop of an active session leaves the session inactive, the five
\* producer variables, tts.ws and the player's ws null, the sockets they
\* referred to closing or closed, the camera, the IMU and the speech
\* recognition stopped, the automatic reconnect of both audio sockets off,
\* and the playback queue empty with nothing playing.
C10_StopPostState ==
  [][(isSessionActive /\ ~isSessionActive') =>
       /\ \A ch \in ClientChannels :
            /\ ws'[ch] = 0
            /\ ws[ch] # 0 => sockets'[ws[ch]].readyState \in {"CLOSING", "CLOSED"}
       /\ ~cameraStarted'
       /\ ~imu'.isActive /\ ~imu'.intervalId
       /\ ~speechRecognitionStarted'
       /\ \A ch \in AudioChannels : ~autoReconnect'[ch]
       /\ audioQueue' = <<>>
       /\ ~isPlaying']_vars

\* a stop found a producer socket and the player's socket open, an adapter
\* running and a chunk in the queue
C10_Witness ==
  /\ ~isSessionActive
  /\ lastStop.seq = 1
  /\ lastStop.open \cap Producers # {}
  /\ "wav_audio" \in lastStop.open
  /\ lastStop.running # {}
  /\ lastStop.queued > 0

\* what step leaves behind when it has run
StepDone(step) ==
  CASE step \in ClientChannels ->
         ws[step] # 0 => sockets'[ws[step]].readyState \in {"CLOSING", "CLOSED"}
    [] step = "stopIMUSensor" -> ~imu'.isActive /\ ~imu'.intervalId
    [] step = "stopCamera" -> ~cameraStarted'
    [] step = "stopSpeechRecognition" -> ~speechRecognitionStarted'
    [] OTHER -> audioQueue' = <<>> /\ ~isPlaying'

\* C11: when one step of the teardown throws, the session still ends inactive
\* and every other step of the teardown has run.
C11_TeardownIsTotal ==
  [][(isSessionActive /\ ~isSessionActive') =>
       \A i \in 1..Len(TeardownOrder) :
         TeardownOrder[i] # lastStop'.thrown => StepDone(TeardownOrder[i])]_vars

\* C12: no capture adapter puts a sample on the wire while the session is
\* inactive.
C12_NoSampleWhileInactive == emitted = {}

\* C13: while the session is inactive, every socket a channel variable of the
\* page refers to is closing or closed, and no received audio is playing.
C13_InactiveMeansClosed ==
  ~isSessionActive =>
    /\ \A ch \in ClientChannels :
         ws[ch] # 0 => sockets[ws[ch]].readyState \in {"CLOSING", "CLOSED"}
    /\ ~isPlaying

\* the channels and the adapter state that belong to one checkbox
ChannelsOf(s) == IF s = "audio" THEN AudioChannels ELSE {s}
AdapterOf(s) ==
  CASE s = "camera" -> <<cameraStarted, cameraAcquiring>>
    [] s = "microphone" -> <<speechRecognitionStarted>>
    [] s = "imu" -> <<imu>>
    [] s = "gps" -> <<gps>>
    [] s = "audio" -> <<autoReconnect, fetching, playerVars>>
    [] OTHER -> <<xrSession, xrPending>>

\* a step leaves the session flag and all that belongs to the other checkboxes
\* as it was: their flags, their channel variables, the sockets of their
\* channels (none added, none changing state) and their adapters
FrameOf(s) ==
  /\ isSessionActive' = isSessionActive
  /\ \A t \in Sensors \ {s} :
       /\ enabledSensors'[t] = enabledSensors[t]
       /\ AdapterOf(t)' = AdapterOf(t)
       /\ \A ch \in ChannelsOf(t) : ws'[ch] = ws[ch]
  /\ \A id \in 1..Len(sockets') :
       sockets'[id].chan \notin ChannelsOf(s) =>
         /\ id <= Len(sockets)
         /\ sockets'[id].readyState = sockets[id].readyState

\* C14: a change of one checkbox during an active session changes nothing
\* that belongs to another sensor, and not the session flag.
C14_ToggleFrame ==
  [][(toggles' # toggles /\ isSessionActive) => \E s \in Sensors : FrameOf(s)]_vars

\* the channel of a sensor is closed and its adapter stopped
ChannelClosed(s) ==
  /\ \A ch \in ChannelsOf(s) : ws[ch] # 0 => ~Live(sockets[ws[ch]])
  /\ CASE s = "camera" -> ~cameraStarted
       [] s = "microphone" -> ~speechRecognitionStarted
       [] s = "imu" -> ~imu.isActive
       [] s = "gps" -> ~gps.isActive
       [] OTHER -> TRUE

\* the channel of a sensor is connecting or open; the audio channels connect
\* once the configuration has been fetched
ChannelOpened(s) ==
  \/ \E ch \in ChannelsOf(s) : ws[ch] # 0 /\ Live(sockets[ws[ch]])
  \/ s = "audio" /\ Awaiting(AudioFetchKind) > 0

\* C15: during an active session, unticking the box of camera, microphone,
\* IMU, GPS or audio closes the channel of that sensor and stops its adapter,
\* and ticking it opens the channel.
C15_ToggleClosesAndOpens ==
  [][(toggles' # toggles /\ isSessionActive) =>
       \A s \in Sensors \ {"pose"} :
         /\ (enabledSensors[s] /\ ~enabledSensors'[s]) => ChannelClosed(s)'
         /\ (~enabledSensors[s] /\ enabledSensors'[s]) => ChannelOpened(s)']_vars

\* the session is active and every enabled producer channel but that of the
\* 3D position has a socket connecting or open
ActiveWithOthers ==
  /\ isSessionActive
  /\ \A i \in 1..Len(ToConnect(enabledSensors)) :
       LET ch == ToConnect(enabledSensors)[i] IN
       ch # "pose" => ws[ch] # 0 /\ Live(sockets[ws[ch]])

\* C16: a start goes on to the active session with the other channels opened
\* whatever the outcome of one sensor's setup: the XR session request
\* resolving either way, the camera request resolving either way, a socket
\* failing to connect.
C16_FailedSetupStillStarts ==
  [][/\ xrPending' < xrPending => ActiveWithOthers'
     /\ (cameraAcquiring' < cameraAcquiring \/ Len(fetching') < Len(fetching)
         \/ \E id \in SocketIds : /\ sockets[id].readyState = "CONNECTING"
                                  /\ sockets'[id].readyState = "CLOSED")
        => isSessionActive' = isSessionActive]_vars

\* C17: when the camera request fails during an active session, the camera's
\* flag is turned off, the session stays active and the other flags stay as
\* they were.
C17_CaptureErrorDisablesSensor ==
  [][(isSessionActive /\ cameraAcquiring' < cameraAcquiring /\ ~cameraStarted') =>
       /\ ~enabledSensors'.camera
       /\ isSessionActive'
       /\ \A t \in Sensors \ {"camera"} : enabledSensors'[t] = enabledSensors[t]]_vars

\* a step in which an asynchronous step of a start resolves: the
\* configuration fetch of the audio connect or the camera request
StartStepResolves ==
  \/ \E i \in 1..Len(fetching) : /\ fetching[i].kind \in {"tts", "wav"}
                                 /\ fetching' = Without(fetching, i)
  \/ cameraAcquiring' < cameraAcquiring

\* C19: when an asynchronous step of a start resolves after the session has
\* been stopped, its continuation creates no socket and starts no capture.
C19_StaleContinuationIsInert ==
  [][(~isSessionActive /\ StartStepResolves) =>
       /\ Len(sockets') = Len(sockets)
       /\ cameraStarted' = cameraStarted]_vars

\* C18: every permission request of a start click is issued before the click
\* listener has been suspended for the first time.
C18_RequestsBeforeAnyAwait ==
  \A i \in 1..Len(requests) : requests[i].after = 0

\* the exit was reached through a timer that forced the race
ForcedExit == shutdownLog \cap {"stopTimedOut", "tooLong"} # {}

\* C20: once shutdown() has been called the process exits, and an exit that a
\* timer forced comes after 'Application shutdown complete'.
C20_ShutdownExits ==
  /\ (invocations # <<>>) ~> (exitCode # "none")
  /\ []((exitCode # "none" /\ ForcedExit) => "complete" \in shutdownLog)

\* C20 witness: shutdown was called twice, ROS shutdown threw, the HTTPS
\* server never closed, and the timer of stopServer led to the exit.
C20_Witness ==
  /\ exitCode = "0"
  /\ Len(invocations) = 2
  /\ httpsServer = "closing"
  /\ "rosError" \in shutdownLog
  /\ {"stopTimedOut", "complete"} \subseteq shutdownLog

(***************************************************************************)
(* Properties of the producer handlers of the server                       *)
(***************************************************************************)
\* the handling of the i-th received message raised inside the handler
Failed(i) == Try(prodChan, rxLog[i]).thrown
\* what the bus holds that came from the i-th received message
PublishedOf(i) ==
  LET mine == SelectSeq(bus, LAMBDA e : e.of = i)
  IN [j \in 1..Len(mine) |-> [topic |-> mine[j].topic, msg |-> mine[j].msg]]

\* C21: on every producer channel a message that fails to parse or to
\* translate publishes nothing and lets no exception out of the handler, and
\* the message received next on the same connection, if it is a good one, is
\* published as usual.
C21_FailureIsContained ==
  /\ escaped = {}
  /\ \A i \in 1..Len(rxLog) :
       /\ Failed(i) => PublishedOf(i) = <<>>
       /\ (i > 1 /\ Failed(i - 1) /\ ~Failed(i)) =>
            PublishedOf(i) = Try(prodChan, rxLog[i]).pubs

\* C21 witness: a connection received a failing message and then a good one,
\* which is on the bus.
C21_Witness ==
  /\ Len(rxLog) = 2
  /\ Failed(1)
  /\ ~Failed(2)
  /\ PublishedOf(2) # <<>>
  /\ prodOpen

\* a payload without its data-URL prefix: what follows the comma that ends
\* the prefix, or all of it when it has none
WithoutPrefix(s) ==
  IF \E i \in 1..Len(s) : s[i] = Comma
  THEN LET i == CHOOSE k \in 1..Len(s) :
                  s[k] = Comma /\ \A j \in 1..(k - 1) : s[j] # Comma
       IN SubSeq(s, i + 1, Len(s))
  ELSE s

\* the i-th received message is a camera message with a payload
CameraMessage(i) ==
  /\ prodChan = "camera"
  /\ rxLog[i].parse
  /\ rxLog[i].data.camera.t = "str"
  /\ rxLog[i].data.camera.s # <<>>

\* C22: every camera message, with a data-URL prefix or bare base64, publishes
\* a compressed image whose bytes are the base64 decoding of the payload
\* without its prefix.
C22_ImageBytesAreDecodedPayload ==
  \A i \in 1..Len(rxLog) :
    CameraMessage(i) =>
      \E j \in 1..Len(bus) :
        /\ bus[j].of = i
        /\ bus[j].topic = "camera/image_raw/compressed"
        /\ bus[j].msg.data = BufferFromBase64(WithoutPrefix(rxLog[i].data.camera.s))

\* the value of an exact quotient is the integer n
RatioIs(r, n) == r.num = n * r.den

\* the image and the camera info published from the i-th message agree with
\* the message: same header, the message's size or 640 x 480, the principal
\* point at the centre
FramePair(i) ==
  LET p == PublishedOf(i)
      d == rxLog[i].data
      width == IF d.width.t = "num" THEN d.width.v ELSE 640
      height == IF d.height.t = "num" THEN d.height.v ELSE 480
  IN /\ Len(p) = 2
     /\ p[1].topic = "camera/image_raw/compressed"
     /\ p[2].topic = "camera/camera_info"
     /\ p[1].msg.header = p[2].msg.header
     /\ p[2].msg.width = width
     /\ p[2].msg.height = height
     /\ p[2].msg.k[3] = Ratio(width, 2)
     /\ p[2].msg.k[6] = Ratio(height, 2)
     /\ width = 640 => RatioIs(p[2].msg.k[3], 320)

NumberOf(f) == IF f.t = "num" THEN f.v ELSE 0

AccuracyOf(fix) == IF fix.accuracy.t = "num" /\ fix.accuracy.v # 0
                   THEN fix.accuracy.v ELSE 1

\* C25: every published geo-fix has a position_covariance of 9 entries, with
\* the square of the accuracy at 0, 4 and 8 and 0 elsewhere, the accuracy
\* being 1 when the message's is absent or 0.
C25_CovarianceDiagonal ==
  \A j \in 1..Len(bus) :
    bus[j].topic = "mobile_sensor/gps" =>
      LET fix == rxLog[bus[j].of].data.gps
          cov == bus[j].msg.position_covariance
      IN /\ DOMAIN cov = 0..8
         /\ \A i \in {0, 4, 8} : cov[i] = AccuracyOf(fix) * AccuracyOf(fix)
         /\ \A i \in (0..8) \ {0, 4, 8} : cov[i] = 0

\* C25 witness: one fix with accuracy 5 and one without accuracy are on the
\* bus, with 25 and with 1 on the diagonal.
C25_Witness ==
  /\ Len(bus) = 2
  /\ bus[1].topic = "mobile_sensor/gps"
  /\ rxLog[1].data.gps.accuracy = N(5)
  /\ bus[1].msg.position_covariance[4] = 25
  /\ rxLog[2].data.gps.accuracy = Missing
  /\ bus[2].msg.position_covariance[8] = 1

\* C26: a GPS message whose altitude is absent or null is not dropped: it is
\* published as a geo-fix with altitude 0 and its own latitude and longitude.
C26_FixWithoutAltitudePublished ==
  \A i \in 1..Len(rxLog) :
    LET fix == rxLog[i].data.gps IN
    ( /\ prodChan = "gps"
      /\ rxLog[i].parse
      /\ fix.t = "obj"
      /\ IsNum(fix.latitude) /\ IsNum(fix.longitude)
      /\ fix.altitude.t \in {"null", "absent"} )
    => \E j \in 1..Len(bus) :
         /\ bus[j].of = i
         /\ bus[j].topic = "mobile_sensor/gps"
         /\ bus[j].msg.altitude = 0
         /\ bus[j].msg.latitude = fix.latitude.v
         /\ bus[j].msg.longitude = fix.longitude.v

ReadUint32LE(b, offset) ==
  b[offset + 1] + 256 * b[offset + 2] + 65536 * b[offset + 3]
    + 16777216 * b[offset + 4]
ReadUint16LE(b, offset) == b[offset + 1] + 256 * b[offset + 2]

\* C27: a received buffer of n bytes without the RIFF/WAVE marker is handed to
\* playback as 44 header bytes followed by the n bytes unchanged, with n in
\* the data-length field (bytes 40-43), 36 + n in the RIFF size field (bytes
\* 4-7), one channel, 16 bits per sample and 48000 Hz.
C27_HeaderPrepended ==
  /\ \A i \in 1..Len(arrivals) :
       ~isRiffWave(arrivals[i]) =>
         LET n == Len(arrivals[i])
             wav == handed[i]
         IN /\ Len(wav) = 44 + n
            /\ SubSeq(wav, 45, 44 + n) = arrivals[i]
            /\ ReadUint32LE(wav, 40) = n
            /\ ReadUint32LE(wav, 4) = 36 + n
            /\ ReadUint16LE(wav, 22) = 1
            /\ ReadUint16LE(wav, 34) = 16
            /\ ReadUint32LE(wav, 24) = 48000
  /\ \A q \in 1..Len(audioQueue) : audioQueue[q].data = handed[audioQueue[q].n]

\* C27 witness: a raw buffer of 220 bytes was received while another was
\* audible and waits in the queue with its header, whose RIFF size is 256.
C27_Witness ==
  \E q \in 1..Len(audioQueue) :
    /\ arrivals[audioQueue[q].n] = Pcm(220)
    /\ Len(audioQueue[q].data) = 264
    /\ SubSeq(audioQueue[q].data, 5, 8) = <<0, 1, 0, 0>>
    /\ SubSeq(audioQueue[q].data, 41, 44) = <<220, 0, 0, 0>>

\* C28: the received buffers are played one at a time and in arrival order: a
\* buffer that arrives while an earlier one is audible, being started or
\* queued is put in the queue, so at most one buffer is being started or
\* audible, and playback never begins with a later buffer before an earlier.
C28_OneAtATimeInOrder ==
  /\ Cardinality(starting \cup sounding) <= 1
  /\ \A j, k \in 1..Len(startLog) : j < k => startLog[j] < startLog[k]

(***************************************************************************)
(* Properties of the speech adapter                                        *)
(***************************************************************************)
\* the words of some final results, in the order they were spoken
RECURSIVE WordsOf(_)
WordsOf(results) ==
  IF results = <<>> THEN <<>>
  ELSE SelectSeq(splitOn(results[1], " "), LAMBDA w : w # <<>>)
         \o WordsOf(Tail(results))

\* the words that follow the first occurrence of the wake word
AfterWakeWord(words, word) ==
  LET i == CHOOSE k \in 1..Len(words) :
             /\ toLowerCase(words[k]) = word
             /\ \A j \in 1..(k - 1) : toLowerCase(words[j]) # word
  IN SubSeq(words, i + 1, Len(words))

\* C30: a message is sent on the microphone channel only when the wake word
\* has occurred in the final results accumulated since the last message, its
\* text is exactly the words that follow the wake word, and it is sent when
\* 2 seconds have passed since the last of those results.
C30_WakeWordGated ==
  \A i \in 1..Len(sentLog) :
    LET words == WordsOf(sentLog[i].from) IN
    /\ \E k \in 1..Len(words) : toLowerCase(words[k]) = sentLog[i].keyword
    /\ sentLog[i].transcription = join(AfterWakeWord(words, sentLog[i].keyword), " ")
    /\ sentLog[i].quiet = 2

(***************************************************************************)
(* Properties of the audio output and of the page, continued               *)
(***************************************************************************)
\* the page's current /wav_audio socket closes without the page having
\* called close() on it, in a running session with the audio box ticked
UnexpectedWavClose(id) ==
  /\ id \in 1..Len(sockets)
  /\ sockets[id].chan = "wav_audio"
  /\ ws.wav_audio = id
  /\ sockets[id].readyState \in {"CONNECTING", "OPEN"}
  /\ sockets'[id].readyState = "CLOSED"
  /\ isSessionActive /\ enabledSensors.audio

\* C31: an unexpected close of the /wav_audio connection schedules a
\* reconnect attempt, also after the audio output has been disconnected once
\* and connected again.
C31_ReconnectAfterReconnecting ==
  [][\A id \in SocketIds : UnexpectedWavClose(id) => sockets'[id].timers > 0]_vars

\* a buffer that begins with a RIFF/WAVE container header
HasContainer(b) ==
  /\ Len(b) >= 12
  /\ <<b[1], b[2], b[3], b[4]>> = <<82, 73, 70, 70>>
  /\ <<b[9], b[10], b[11], b[12]>> = <<87, 65, 86, 69>>

\* C32: header processing is idempotent: a buffer with RIFF at bytes 0-3 and
\* WAVE at bytes 8-11 is handed to playback unchanged, processing what was
\* handed over again changes nothing, and every buffer shorter than 12 bytes
\* gets a header.
C32_HeaderIdempotent ==
  \A i \in 1..Len(arrivals) :
    /\ HasContainer(arrivals[i]) => handed[i] = arrivals[i]
    /\ HasContainer(handed[i])
    /\ processedData(handed[i]) = handed[i]
    /\ Len(arrivals[i]) < 12 =>
         /\ Len(handed[i]) = Len(arrivals[i]) + 44
         /\ handed[i] # arrivals[i]

\* C32 witness: a complete WAV file of 46 bytes was handed over as it came,
\* and a raw buffer of 3 bytes with a header in front.
C32_Witness ==
  /\ Len(arrivals) = 2
  /\ HasContainer(arrivals[1])
  /\ Len(handed[1]) = 46
  /\ handed[1] = arrivals[1]
  /\ arrivals[2] = Pcm(3)
  /\ Len(handed[2]) = 47

\* a handle is idle when the pool has it marked available and it is not
\* loading or playing: it has no source, has ended, is paused, or failed
IdleHandle(audio) ==
  audio.available /\ (~audio.src \/ audio.ended \/ audio.paused \/ audio.error)

\* C33: every allocation returns an idle handle when the pool has one, and
\* then leaves the round-robin index alone; only when no handle is idle does
\* it advance the index and return the handle at the index; the handle it
\* returns is marked in use; the pool never has more than three handles
C33_AllocationPrefersIdle ==
  /\ Len(audioElements) <= MAX_AUDIO_ELEMENTS
  /\ \A i \in 1..Len(allocations) :
       LET a == allocations[i]
           idle == {k \in 1..Len(a.before) : IdleHandle(a.before[k])}
       IN /\ a.marked
          /\ idle # {} => a.chosen \in idle /\ a.after = a.index
          /\ idle = {} => /\ a.after = (a.index + 1) % Len(a.before)
                          /\ a.chosen = a.after + 1

\* the timestamp the producer put in the i-th received message
TimestampOf(i) ==
  CASE prodChan = "camera" -> rxLog[i].data.timestamp
    [] prodChan = "imu" -> rxLog[i].data.imu.timestamp
    [] prodChan = "gps" -> rxLog[i].data.gps.timestamp
\* the header stamps published for the i-th received message
StampsOf(i) ==
  {PublishedOf(i)[j].msg.header.stamp : j \in 1..Len(PublishedOf(i))}
\* stamp s is not later than stamp u
NotLater(s, u) == s.sec < u.sec \/ (s.sec = u.sec /\ s.nanosec <= u.nanosec)

\* C34: a camera, IMU or GPS sample whose producer timestamp is a
\* non-negative integer t of milliseconds is published with sec = floor(t /
\* 1000) and nanosec = (t mod 1000) * 1000000, below 1000000000, so that
\* non-decreasing producer timestamps give non-decreasing stamps; a sample
\* without timestamp is stamped with the wall clock
C34_StampFromProducerTime ==
  /\ \A i \in 1..Len(rxLog) :
       /\ StampsOf(i) # {}
       /\ \A s \in StampsOf(i) :
            /\ (IsNum(TimestampOf(i)) /\ TimestampOf(i).v >= 0) =>
                 /\ ~s.clock
                 /\ s.sec = TimestampOf(i).v \div 1000
                 /\ s.nanosec = (TimestampOf(i).v % 1000) * 1000000
                 /\ s.nanosec >= 0 /\ s.nanosec < 1000000000
            /\ TimestampOf(i) = Missing => s.clock
  /\ \A i, k \in 1..Len(rxLog) :
       (/\ i < k
        /\ IsNum(TimestampOf(i)) /\ IsNum(TimestampOf(k))
        /\ TimestampOf(i).v <= TimestampOf(k).v) =>
         \A s \in StampsOf(i), u \in StampsOf(k) :
           ~s.clock /\ ~u.clock /\ NotLater(s, u)

\* the connecting or open sockets of one channel kind
LiveOf(ch) == {id \in 1..Len(sockets) : sockets[id].chan = ch /\ Live(sockets[id])}

\* C35: at every moment the page has at most one connecting or open socket
\* for each channel kind, whatever starts, stops, toggles, closes and
\* reconnect timers came before
C35_OneLiveSocketPerChannel == \A ch \in ClientChannels : Cardinality(LiveOf(ch)) <= 1

\* channel ch was reconnected in a session that has not been stopped since
\* it started: a socket made by a reconnect timer is in the channel's
\* variable and has opened
Reconnected(ch) ==
  /\ isSessionActive
  /\ lastStop = NoStop
  /\ ws[ch] # 0
  /\ sockets[ws[ch]].readyState = "OPEN"
  /\ sockets[ws[ch]].retry > 0

\* C36: once the camera or the microphone channel has reconnected during an
\* active session, the running camera loop and the running speech
\* recognition send on the new socket of the channel, not on the closed one
C36_AdapterFollowsReconnect ==
  /\ (Reconnected("camera") /\ cameraStarted) => held.camera = ws.camera
  /\ (Reconnected("microphone") /\ speechRecognitionStarted) =>
       held.speech = ws.microphone

\* C37: a click on the start button while a start is in progress starts
\* nothing: the start sequence runs once per session, and no channel has two
\* connecting or open sockets made by a start
C37_StartNotReentrant ==
  /\ begun <= 1
  /\ \A ch \in Producers :
       Cardinality({id \in LiveOf(ch) : sockets[id].retry = 0}) <= 1

\* C38: the camera manager never runs two frame loops and never holds two
\* live tracks, however startCamera was called while an acquisition was
\* pending, and stopCamera leaves no acquired track live
C38_OneCaptureLoop ==
  /\ Cardinality(frameLoops) <= 1
  /\ Cardinality(LiveTracks) <= 1
  /\ stopLeft = {}

\* C39: when startApp has failed and the process has exited, a shutdown
\* sequence called by startApp has run and the exit status is 1
C39_FailedStartExitsWithOne ==
  (app = "failed" /\ ~Running) =>
    /\ \E i \in 1..Len(invocations) : invocations[i].trigger = "startApp"
    /\ exitCode = "1"

\* C40: every call of fallbackSpeak made for a primary utterance that
\* failed, threw or was found not started gives the synthesizer one
\* simplified utterance of the same text, and no call of fallbackSpeak is made
\* for a fallback utterance
C40_FallbackSpeaksOnce ==
  \A c \in 1..Len(fallbacks) :
    /\ fallbacks[c].submitted
    /\ Cardinality({i \in 1..Len(utterances) :
                      /\ utterances[i].isFallback
                      /\ utterances[i].text = fallbacks[c].text
                      /\ utterances[i].startTime = fallbacks[c].at}) >= 1
    /\ fallbacks[c].from # 0 => ~utterances[fallbacks[c].from].isFallback
====
